---- MODULE Spec2Model ----
(***************************************************************************)
(* Model of the HTTP client core of spreaker-and-go: request construction, *)
(* the API response envelope / error model, the verb helpers, the generic  *)
(* cursor based pagination helper, and the pagination loop of              *)
(* "episodes download-all" that drives it.                                 *)
(***************************************************************************)
EXTENDS Integers, Sequences, FiniteSets, TLC

(***************************************************************************)
(* Bounds of the model.                                                    *)
(***************************************************************************)
\* longest "messages" array of an error body
MaxMsgs == 2
\* longest "items" array of a page body
MaxItems == 2
\* most pages a scripted server serves to download-all
MaxPages == 3
\* largest --limit given to download-all
MaxLimit == 2
\* the longest answer typed at a confirmation prompt, in characters
MaxAnswer == 3
\* most episodes the download loop of download-all is followed for
MaxDownloads == 3

(***************************************************************************)
(* JSON texts.  A response body is a byte string; it is modelled by the    *)
(* JSON value it spells, or by one of two non-values: the zero-length      *)
(* text and a text that is not JSON at all.  An object keeps its members   *)
(* in order, as a sequence of [k, v] pairs.                                *)
(***************************************************************************)
NoBytes == [t |-> "empty"]
NotJSON == [t |-> "invalid"]
JNull == [t |-> "null"]
JNum(n) == [t |-> "num", n |-> n]
JStr(s) == [t |-> "str", s |-> s]
JArr(a) == [t |-> "arr", a |-> a]
JObj(o) == [t |-> "obj", o |-> o]
KV(k, v) == [k |-> k, v |-> v]

(***************************************************************************)
(* Go destination types of json.Unmarshal.  A struct type lists its        *)
(* fields as [name, key, ty]; key is the json tag.                         *)
(***************************************************************************)
TInt == [k |-> "int"]
TString == [k |-> "string"]
TRaw == [k |-> "raw"]
TSlice(e) == [k |-> "slice", e |-> e]
TStruct(f) == [k |-> "struct", f |-> f]
Field(name, key, ty) == [name |-> name, key |-> key, ty |-> ty]

\* apiResponse reading the payload from a member called "result"
apiResponse_result == TStruct(<<Field("Response", "result", TRaw)>>)

\* apiResponse: the outer wrapper
apiResponse == TStruct(<<Field("Response", "response", TRaw)>>)

\* errorResponse with the tag "message" for "messages"
errorResponse_tag ==
    TStruct(<<Field("Error", "error",
                TStruct(<<Field("Messages", "message", TSlice(TString)),
                          Field("Code", "code", TInt)>>))>>)

\* errorResponse: the error format inside the wrapper
errorResponse ==
    TStruct(<<Field("Error", "error",
                TStruct(<<Field("Messages", "messages", TSlice(TString)),
                          Field("Code", "code", TInt)>>))>>)

\* paginatedResponse: a page of a list endpoint
paginatedResponse ==
    TStruct(<<Field("Items", "items", TRaw),
              Field("NextURL", "next_url", TString)>>)

\* models.Episode, restricted to the fields the callers read
Episode ==
    TStruct(<<Field("EpisodeID", "episode_id", TInt),
              Field("Title", "title", TString)>>)

\* models.Show and models.ShowResponse
Show ==
    TStruct(<<Field("ShowID", "show_id", TInt),
              Field("Title", "title", TString)>>)

ShowResponse == TStruct(<<Field("Show", "show", Show)>>)

\* models.EpisodeResponse
EpisodeResponse == TStruct(<<Field("Episode", "episode", Episode)>>)

\* models.User, restricted to two fields, and models.UserResponse
User ==
    TStruct(<<Field("UserID", "user_id", TInt),
              Field("Fullname", "fullname", TString)>>)

UserResponse == TStruct(<<Field("User", "user", User)>>)

(***************************************************************************)
(* json.Unmarshal.                                                         *)
(***************************************************************************)
\* the struct field named n
FieldNamed(ty, n) == ty.f[CHOOSE i \in 1..Len(ty.f) : ty.f[i].name = n]

RECURSIVE Zero(_)
\* the zero value of a Go type
Zero(ty) ==
    CASE ty.k = "int" -> 0
      [] ty.k = "string" -> ""
      [] ty.k = "raw" -> NoBytes
      [] ty.k = "slice" -> <<>>
      [] ty.k = "struct" ->
            [n \in {ty.f[i].name : i \in 1..Len(ty.f)} |-> Zero(FieldNamed(ty, n).ty)]

\* bytes.EqualFold on the member names that occur in the modelled bodies
KeyFold(k) ==
    CASE k = "Response" -> "response"
      [] k = "Items" -> "items"
      [] OTHER -> k

\* the index of the struct field a member name is stored into, 0 when the
\* member is ignored: an exact match of the json tag wins, then a match
\* that ignores case
FieldIndex(ty, key) ==
    LET exact == {i \in 1..Len(ty.f) : ty.f[i].key = key}
        folded == {i \in 1..Len(ty.f) : KeyFold(ty.f[i].key) = KeyFold(key)}
    IN  IF exact # {} THEN CHOOSE i \in exact : TRUE
        ELSE IF folded # {} THEN CHOOSE i \in folded : TRUE
        ELSE 0

RECURSIVE Store(_, _, _)
RECURSIVE StoreArr(_, _)
RECURSIVE StoreObj(_, _, _)
RECURSIVE StoreMember(_, _, _, _, _)
RECURSIVE StoreRest(_, _, _, _, _)

\* the slice of a decoded element and the decoded rest; the first error is kept
Prepend(h, r) == [err |-> h.err \/ r.err, v |-> <<h.v>> \o r.v]
\* the struct after a decoded member and the decoded rest; the first error is kept
Then(d, r) == [err |-> d.err \/ r.err, v |-> r.v]

\* decodeState.value: store JSON value j into a destination of type ty
\* that holds old.  A type mismatch is recorded and leaves the destination
\* as it was; decoding goes on with the rest of the text.
Store(j, ty, old) ==
    CASE ty.k = "raw" -> [err |-> FALSE, v |-> j]
      [] ty.k # "raw" /\ j.t = "null" ->
            [err |-> FALSE, v |-> IF ty.k = "slice" THEN <<>> ELSE old]
      [] ty.k = "int" /\ j.t # "null" ->
            IF j.t = "num" THEN [err |-> FALSE, v |-> j.n]
            ELSE [err |-> TRUE, v |-> old]
      [] ty.k = "string" /\ j.t # "null" ->
            IF j.t = "str" THEN [err |-> FALSE, v |-> j.s]
            ELSE [err |-> TRUE, v |-> old]
      [] ty.k = "slice" /\ j.t # "null" ->
            IF j.t = "arr" THEN StoreArr(j.a, ty.e)
            ELSE [err |-> TRUE, v |-> old]
      [] ty.k = "struct" /\ j.t # "null" ->
            IF j.t = "obj" THEN StoreObj(j.o, ty, old)
            ELSE [err |-> TRUE, v |-> old]

\* an array into a fresh slice, element by element, in order
StoreArr(a, ety) ==
    IF a = <<>> THEN [err |-> FALSE, v |-> <<>>]
    ELSE Prepend(Store(Head(a), ety, Zero(ety)), StoreArr(Tail(a), ety))

\* an object into a struct, member by member, in order; a later member of
\* the same name overwrites an earlier one, unknown members are skipped
StoreObj(pairs, ty, cur) ==
    IF pairs = <<>> THEN [err |-> FALSE, v |-> cur]
    ELSE StoreMember(Head(pairs), FieldIndex(ty, Head(pairs).k), Tail(pairs), ty, cur)

\* member p, which belongs to field number i (0: to none), then the rest
StoreMember(p, i, rest, ty, cur) ==
    IF i = 0 THEN StoreObj(rest, ty, cur)
    ELSE StoreRest(Store(p.v, ty.f[i].ty, cur[ty.f[i].name]), ty.f[i].name, rest, ty, cur)

\* the members after one that was decoded as d into the field called name
StoreRest(d, name, rest, ty, cur) ==
    Then(d, StoreObj(rest, ty, [cur EXCEPT ![name] = d.v]))

\* json.Unmarshal(data, &dst) with dst of type ty holding old: a text that
\* is not valid JSON (the zero-length text included) is rejected before
\* anything is stored
Unmarshal(data, ty, old) ==
    IF data.t \in {"empty", "invalid"} THEN [err |-> TRUE, v |-> old]
    ELSE Store(data, ty, old)

(***************************************************************************)
(* The client and its errors.                                              *)
(***************************************************************************)
DefaultBaseURL == "https://api.spreaker.com"
DefaultAPIVersion == "v2"
\* seconds
DefaultTimeout == 30

NewClient(token) ==
    [BaseURL |-> DefaultBaseURL, APIVersion |-> DefaultAPIVersion,
     Token |-> token, Timeout |-> DefaultTimeout, CheckRedirect |-> "default",
     UserAgent |-> "spreaker-cli/1.0"]

\* NewClientWithOptions taking the timeout as given, zero included
NewClientWithOptions_zero(token, baseURL, timeout) ==
    LET c1 == NewClient(token)
        c2 == IF baseURL # "" THEN [c1 EXCEPT !.BaseURL = baseURL] ELSE c1
    IN  [c2 EXCEPT !.Timeout = timeout]

NewClientWithOptions(token, baseURL, timeout) ==
    LET c1 == NewClient(token)
        c2 == IF baseURL # "" THEN [c1 EXCEPT !.BaseURL = baseURL] ELSE c1
    IN  IF timeout > 0 THEN [c2 EXCEPT !.Timeout = timeout] ELSE c2

StatusNotFound == 404
StatusUnauthorized == 401
StatusTooManyRequests == 429

\* the nil error
Nil == [type |-> "nil", msg |-> "", StatusCode |-> 0, Code |-> 0, Messages |-> <<>>]
\* an error made by fmt.Errorf, told apart by the text it starts with
Errorf(msg) == [type |-> "errorString", msg |-> msg, StatusCode |-> 0, Code |-> 0, Messages |-> <<>>]
\* &APIError{...}
APIError(status, code, messages) ==
    [type |-> "APIError", msg |-> "spreaker API error", StatusCode |-> status, Code |-> code, Messages |-> messages]

IsNotFound(e) == e.StatusCode = StatusNotFound
\* IsRateLimited with ">=" for "=="
IsRateLimited_ge(e) == e.StatusCode >= StatusTooManyRequests
IsUnauthorized(e) == e.StatusCode = StatusUnauthorized
IsRateLimited(e) == e.StatusCode = StatusTooManyRequests


\* the kind of failure an error reports
ErrorKind(e) ==
    CASE e.type = "nil" -> "none"
      [] e.type = "APIError" -> "api"
      [] e.type = "errorString" /\ e.msg \in {"request failed", "failed to read response"} -> "transport"
      [] e.type = "errorString" /\ e.msg = "failed to parse response" -> "envelope"
      [] e.type = "errorString" /\ e.msg \in {"failed to parse response data",
                                              "failed to parse paginated response",
                                              "failed to parse items"} -> "payload"
      [] e.type = "errorString" /\ e.msg \in {"failed to open file", "failed to copy file to form"} -> "file"
      [] OTHER -> "local"

(***************************************************************************)
(* Requests.                                                               *)
(***************************************************************************)
\* a base URL http.NewRequest cannot parse
BadBaseURL == "://bad"

buildURL(c, path) == c.BaseURL \o "/" \o c.APIVersion \o path

\* newRequest setting the Authorization header whatever the token
newRequest_anon(c, method, urlStr, query, body) ==
    IF c.BaseURL = BadBaseURL
    THEN [err |-> Errorf("failed to create request"), req |-> <<>>]
    ELSE [err |-> Nil,
          req |-> <<[method |-> method, url |-> urlStr, query |-> query, body |-> body,
                     UserAgent |-> <<c.UserAgent>>,
                     Accept |-> <<"application/json">>,
                     Authorization |-> <<"Bearer " \o c.Token>>,
                     ContentType |-> <<>>]>>]

\* the outcome of http.NewRequest plus the common headers: [err, req]
newRequest(c, method, urlStr, query, body) ==
    IF c.BaseURL = BadBaseURL
    THEN [err |-> Errorf("failed to create request"), req |-> <<>>]
    ELSE [err |-> Nil,
          req |-> <<[method |-> method, url |-> urlStr, query |-> query, body |-> body,
                     UserAgent |-> <<c.UserAgent>>,
                     Accept |-> <<"application/json">>,
                     Authorization |-> IF c.Token # "" THEN <<"Bearer " \o c.Token>> ELSE <<>>,
                     ContentType |-> <<>>]>>]

\* req.Header.Set("Content-Type", v)
SetContentType(r, v) == <<[r[1] EXCEPT !.ContentType = <<v>>]>>

(***************************************************************************)
(* One HTTP exchange, as the client sees it: HTTPClient.Do fails, reading  *)
(* the body fails, or a status and a body arrive.                          *)
(***************************************************************************)
DoFails == [outcome |-> "doerr", status |-> 0, body |-> NoBytes]
ReadFails(s) == [outcome |-> "readerr", status |-> s, body |-> NoBytes]
Response(s, b) == [outcome |-> "ok", status |-> s, body |-> b]

\* a result pointer the caller did not pass
NoResult == [ptr |-> FALSE]
\* a result pointer and what it points at
ResultOf(v) == [ptr |-> TRUE, v |-> v]

\* parseErrorResponse giving up on a body it cannot parse
parseErrorResponse_abort(statusCode, body) ==
    LET apiResp == Unmarshal(body, apiResponse, Zero(apiResponse))
        errResp == Unmarshal(apiResp.v.Response, errorResponse, Zero(errorResponse))
    IN  IF apiResp.err THEN Errorf("failed to parse response")
        ELSE IF errResp.err THEN Errorf("failed to parse response data")
        ELSE APIError(statusCode, errResp.v.Error.Code, errResp.v.Error.Messages)

\* parseErrorResponse: always an *APIError
parseErrorResponse(statusCode, body) ==
    LET apiResp == Unmarshal(body, apiResponse, Zero(apiResponse))
        errResp == Unmarshal(apiResp.v.Response, errorResponse, Zero(errorResponse))
    IN  IF ~apiResp.err /\ ~errResp.err
        THEN APIError(statusCode, errResp.v.Error.Code, errResp.v.Error.Messages)
        ELSE APIError(statusCode, 0, <<>>)

\* Client.do going on to the payload whatever the parse of the wrapper said
do_unchecked(c, wantResult, ty, x) ==
    LET untouched == IF wantResult THEN ResultOf(Zero(ty)) ELSE NoResult
    IN
    IF x.outcome = "doerr"
    THEN [err |-> Errorf("request failed"), result |-> untouched,
          trace |-> <<"HTTPClient.Do">>]
    ELSE IF x.outcome = "readerr"
    THEN [err |-> Errorf("failed to read response"), result |-> untouched,
          trace |-> <<"HTTPClient.Do", "io.ReadAll">>]
    ELSE IF x.status >= 400
    THEN [err |-> parseErrorResponse(x.status, x.body), result |-> untouched,
          trace |-> <<"HTTPClient.Do", "io.ReadAll", "parseErrorResponse">>]
    ELSE IF ~wantResult
    THEN [err |-> Nil, result |-> untouched,
          trace |-> <<"HTTPClient.Do", "io.ReadAll">>]
    ELSE LET apiResp == Unmarshal(x.body, apiResponse, Zero(apiResponse)) IN
         IF FALSE
         THEN [err |-> Errorf("failed to parse response"), result |-> untouched,
               trace |-> <<"HTTPClient.Do", "io.ReadAll", "Unmarshal(apiResponse)">>]
         ELSE LET r == Unmarshal(apiResp.v.Response, ty, Zero(ty)) IN
              [err |-> IF r.err THEN Errorf("failed to parse response data") ELSE Nil,
               result |-> ResultOf(r.v),
               trace |-> <<"HTTPClient.Do", "io.ReadAll", "Unmarshal(apiResponse)", "Unmarshal(result)">>]

\* Client.do dropping the error of io.ReadAll
do_unread(c, wantResult, ty, x) ==
    LET untouched == IF wantResult THEN ResultOf(Zero(ty)) ELSE NoResult
    IN
    IF x.outcome = "doerr"
    THEN [err |-> Errorf("request failed"), result |-> untouched,
          trace |-> <<"HTTPClient.Do">>]
    ELSE IF x.status >= 400
    THEN [err |-> parseErrorResponse(x.status, x.body), result |-> untouched,
          trace |-> <<"HTTPClient.Do", "io.ReadAll", "parseErrorResponse">>]
    ELSE IF ~wantResult
    THEN [err |-> Nil, result |-> untouched,
          trace |-> <<"HTTPClient.Do", "io.ReadAll">>]
    ELSE LET apiResp == Unmarshal(x.body, apiResponse, Zero(apiResponse)) IN
         IF apiResp.err
         THEN [err |-> Errorf("failed to parse response"), result |-> untouched,
               trace |-> <<"HTTPClient.Do", "io.ReadAll", "Unmarshal(apiResponse)">>]
         ELSE LET r == Unmarshal(apiResp.v.Response, ty, Zero(ty)) IN
              [err |-> IF r.err THEN Errorf("failed to parse response data") ELSE Nil,
               result |-> ResultOf(r.v),
               trace |-> <<"HTTPClient.Do", "io.ReadAll", "Unmarshal(apiResponse)", "Unmarshal(result)">>]

\* Client.do: [err, result, trace]; result is what the result pointer
\* holds afterwards, trace the steps taken in order
do(c, wantResult, ty, x) ==
    LET untouched == IF wantResult THEN ResultOf(Zero(ty)) ELSE NoResult
    IN
    IF x.outcome = "doerr"
    THEN [err |-> Errorf("request failed"), result |-> untouched,
          trace |-> <<"HTTPClient.Do">>]
    ELSE IF x.outcome = "readerr"
    THEN [err |-> Errorf("failed to read response"), result |-> untouched,
          trace |-> <<"HTTPClient.Do", "io.ReadAll">>]
    ELSE IF x.status >= 400
    THEN [err |-> parseErrorResponse(x.status, x.body), result |-> untouched,
          trace |-> <<"HTTPClient.Do", "io.ReadAll", "parseErrorResponse">>]
    ELSE IF ~wantResult
    THEN [err |-> Nil, result |-> untouched,
          trace |-> <<"HTTPClient.Do", "io.ReadAll">>]
    ELSE LET apiResp == Unmarshal(x.body, apiResponse, Zero(apiResponse)) IN
         IF apiResp.err
         THEN [err |-> Errorf("failed to parse response"), result |-> untouched,
               trace |-> <<"HTTPClient.Do", "io.ReadAll", "Unmarshal(apiResponse)">>]
         ELSE LET r == Unmarshal(apiResp.v.Response, ty, Zero(ty)) IN
              [err |-> IF r.err THEN Errorf("failed to parse response data") ELSE Nil,
               result |-> ResultOf(r.v),
               trace |-> <<"HTTPClient.Do", "io.ReadAll", "Unmarshal(apiResponse)", "Unmarshal(result)">>]

\* a call that ended before any request existed
Local(e, wantResult, ty, trace) ==
    [err |-> e, result |-> IF wantResult THEN ResultOf(Zero(ty)) ELSE NoResult,
     trace |-> trace, req |-> <<>>]

\* Send doing the request a second time after a failure
Send_again(c, nr, wantResult, ty, x, before) ==
    IF nr.err # Nil THEN Local(nr.err, wantResult, ty, before \o <<"newRequest">>)
    ELSE LET d == do(c, wantResult, ty, x)
         IN  [err |-> d.err, result |-> d.result,
              trace |-> before \o <<"newRequest">> \o d.trace
                        \o (IF d.err # Nil THEN d.trace ELSE <<>>),
              req |-> nr.req]

\* build the request, then do it: the tail every verb helper shares
Send(c, nr, wantResult, ty, x, before) ==
    IF nr.err # Nil THEN Local(nr.err, wantResult, ty, before \o <<"newRequest">>)
    ELSE LET d == do(c, wantResult, ty, x)
         IN  [err |-> d.err, result |-> d.result,
              trace |-> before \o <<"newRequest">> \o d.trace, req |-> nr.req]

\* url.QueryEscape on the values that occur in the modelled calls
QueryEscape(v) ==
    CASE v = "a b" -> "a+b"
      [] v = "x&y=z" -> "x%26y%3Dz"
      [] OTHER -> v

\* url.Values.Encode: the pairs in key order, each value escaped.  A params
\* map is written as its pairs in key order.
Encode(params) == [i \in 1..Len(params) |-> <<params[i][1], QueryEscape(params[i][2])>>]

\* Query putting the "?" after every URL
Query_always(params) == <<"?">> \o Encode(params)

\* what Get and GetPaginated append to the URL: "?" and the encoded query
\* when the params map is not empty, nothing otherwise
Query(params) == IF Len(params) > 0 THEN <<"?">> \o Encode(params) ELSE <<>>

(***************************************************************************)
(* The verb helpers.  Each yields [err, result, trace, req].               *)
(***************************************************************************)
Get(c, path, params, wantResult, ty, x) ==
    Send(c, newRequest(c, "GET", buildURL(c, path), Query(params), "none"),
         wantResult, ty, x, <<>>)

Post(c, path, body, wantResult, ty, x) ==
    LET nr == newRequest(c, "POST", buildURL(c, path), <<>>,
                         IF body # "nil" THEN "json" ELSE "none")
        nr2 == IF nr.err = Nil /\ body # "nil"
               THEN [nr EXCEPT !.req = SetContentType(nr.req, "application/json")]
               ELSE nr
    IN  Send(c, nr2, wantResult, ty, x, <<>>)

\* writer.WriteField(key, value) for every entry of fields: the parts of the
\* multipart body, in no order; fields is a list of <<key, value>>
WriteFields(r, fields) == <<r[1] @@ [form |-> {fields[i] : i \in 1..Len(fields)}]>>

\* PostForm labelling its multipart body as JSON
PostForm_json(c, path, fields, wantResult, ty, x) ==
    LET nr == newRequest(c, "POST", buildURL(c, path), <<>>, "multipart")
        nr2 == IF nr.err = Nil
               THEN [nr EXCEPT !.req = WriteFields(SetContentType(nr.req, "application/json"),
                                                   fields)]
               ELSE nr
    IN  Send(c, nr2, wantResult, ty, x, <<>>)

PostForm(c, path, fields, wantResult, ty, x) ==
    LET nr == newRequest(c, "POST", buildURL(c, path), <<>>, "multipart")
        nr2 == IF nr.err = Nil
               THEN [nr EXCEPT !.req = WriteFields(SetContentType(nr.req,
                                                       "multipart/form-data; boundary="),
                                                   fields)]
               ELSE nr
    IN  Send(c, nr2, wantResult, ty, x, <<>>)

\* PostFormWithFile building the request before it opens the file
PostFormWithFile_late(c, path, fields, fileField, file, wantResult, ty, x) ==
    LET nr == newRequest(c, "POST", buildURL(c, path), <<>>, "multipart+file")
        nr2 == IF nr.err = Nil
               THEN [nr EXCEPT !.req = SetContentType(nr.req, "multipart/form-data; boundary=")]
               ELSE nr
    IN  IF nr.err # Nil THEN Local(nr.err, wantResult, ty, <<"newRequest">>)
        ELSE IF file \in {"missing", "denied"}
        THEN Local(Errorf("failed to open file"), wantResult, ty, <<"newRequest", "os.Open">>)
        ELSE IF file = "dir"
        THEN Local(Errorf("failed to copy file to form"), wantResult, ty,
                   <<"newRequest", "os.Open", "io.Copy">>)
        ELSE LET d == do(c, wantResult, ty, x)
             IN  [err |-> d.err, result |-> d.result,
                  trace |-> <<"newRequest", "os.Open", "io.Copy">> \o d.trace, req |-> nr.req]

\* file is what the path names: "missing", "denied" (os.Open fails),
\* "dir" (opens, cannot be read) or "ok"
PostFormWithFile(c, path, fields, fileField, file, wantResult, ty, x) ==
    IF file \in {"missing", "denied"}
    THEN Local(Errorf("failed to open file"), wantResult, ty, <<"os.Open">>)
    ELSE IF file = "dir"
    THEN Local(Errorf("failed to copy file to form"), wantResult, ty, <<"os.Open", "io.Copy">>)
    ELSE LET nr == newRequest(c, "POST", buildURL(c, path), <<>>, "multipart+file")
             nr2 == IF nr.err = Nil
                    THEN [nr EXCEPT !.req = SetContentType(nr.req, "multipart/form-data; boundary=")]
                    ELSE nr
         IN  Send(c, nr2, wantResult, ty, x, <<"os.Open", "io.Copy">>)

Delete(c, path, wantResult, ty, x) ==
    Send(c, newRequest(c, "DELETE", buildURL(c, path), <<>>, "none"), wantResult, ty, x, <<>>)

Put(c, path, wantResult, ty, x) ==
    Send(c, newRequest(c, "PUT", buildURL(c, path), <<>>, "none"), wantResult, ty, x, <<>>)

(***************************************************************************)
(* Pagination.                                                             *)
(***************************************************************************)
\* a nil *PaginatedResult
NilPage == [nil |-> TRUE, Items |-> <<>>, NextURL |-> "", HasMore |-> FALSE]

\* PaginatedResult telling has-more by the items
PaginatedResult_items(items, nextURL) ==
    [nil |-> FALSE, Items |-> items, NextURL |-> nextURL, HasMore |-> Len(items) > 0]

\* &PaginatedResult[T]{Items, NextURL, HasMore: NextURL != ""}
PaginatedResult(items, nextURL) ==
    [nil |-> FALSE, Items |-> items, NextURL |-> nextURL, HasMore |-> nextURL # ""]

\* GetPaginated reporting a page that does not parse with the text of the wrapper failure
GetPaginated_msg(c, path, params, T, x) ==
    LET nr == newRequest(c, "GET", buildURL(c, path), Query(params), "none")
        sent(e, steps) == [page |-> NilPage, err |-> e,
                           trace |-> <<"newRequest">> \o steps, req |-> nr.req]
    IN
    IF nr.err # Nil
    THEN [page |-> NilPage, err |-> nr.err, trace |-> <<"newRequest">>, req |-> <<>>]
    ELSE IF x.outcome = "doerr"
    THEN sent(Errorf("request failed"), <<"HTTPClient.Do">>)
    ELSE IF x.outcome = "readerr"
    THEN sent(Errorf("failed to read response"), <<"HTTPClient.Do", "io.ReadAll">>)
    ELSE IF x.status >= 400
    THEN sent(parseErrorResponse(x.status, x.body),
              <<"HTTPClient.Do", "io.ReadAll", "parseErrorResponse">>)
    ELSE LET apiResp == Unmarshal(x.body, apiResponse, Zero(apiResponse)) IN
         IF apiResp.err
         THEN sent(Errorf("failed to parse response"),
                   <<"HTTPClient.Do", "io.ReadAll", "Unmarshal(apiResponse)">>)
         ELSE LET paginated == Unmarshal(apiResp.v.Response, paginatedResponse,
                                         Zero(paginatedResponse)) IN
              IF paginated.err
              THEN sent(Errorf("failed to parse response"),
                        <<"HTTPClient.Do", "io.ReadAll", "Unmarshal(apiResponse)",
                          "Unmarshal(paginatedResponse)">>)
              ELSE LET items == Unmarshal(paginated.v.Items, TSlice(T), <<>>) IN
                   IF items.err
                   THEN sent(Errorf("failed to parse items"),
                             <<"HTTPClient.Do", "io.ReadAll", "Unmarshal(apiResponse)",
                               "Unmarshal(paginatedResponse)", "Unmarshal(items)">>)
                   ELSE [page |-> PaginatedResult(items.v, paginated.v.NextURL),
                         err |-> Nil,
                         trace |-> <<"newRequest", "HTTPClient.Do", "io.ReadAll",
                                     "Unmarshal(apiResponse)", "Unmarshal(paginatedResponse)",
                                     "Unmarshal(items)">>,
                         req |-> nr.req]

\* GetPaginated returning the page built so far beside an items error
GetPaginated_partial(c, path, params, T, x) ==
    LET nr == newRequest(c, "GET", buildURL(c, path), Query(params), "none")
        sent(e, steps) == [page |-> NilPage, err |-> e,
                           trace |-> <<"newRequest">> \o steps, req |-> nr.req]
    IN
    IF nr.err # Nil
    THEN [page |-> NilPage, err |-> nr.err, trace |-> <<"newRequest">>, req |-> <<>>]
    ELSE IF x.outcome = "doerr"
    THEN sent(Errorf("request failed"), <<"HTTPClient.Do">>)
    ELSE IF x.outcome = "readerr"
    THEN sent(Errorf("failed to read response"), <<"HTTPClient.Do", "io.ReadAll">>)
    ELSE IF x.status >= 400
    THEN sent(parseErrorResponse(x.status, x.body),
              <<"HTTPClient.Do", "io.ReadAll", "parseErrorResponse">>)
    ELSE LET apiResp == Unmarshal(x.body, apiResponse, Zero(apiResponse)) IN
         IF apiResp.err
         THEN sent(Errorf("failed to parse response"),
                   <<"HTTPClient.Do", "io.ReadAll", "Unmarshal(apiResponse)">>)
         ELSE LET paginated == Unmarshal(apiResp.v.Response, paginatedResponse,
                                         Zero(paginatedResponse)) IN
              IF paginated.err
              THEN sent(Errorf("failed to parse paginated response"),
                        <<"HTTPClient.Do", "io.ReadAll", "Unmarshal(apiResponse)",
                          "Unmarshal(paginatedResponse)">>)
              ELSE LET items == Unmarshal(paginated.v.Items, TSlice(T), <<>>) IN
                   IF items.err
                   THEN [sent(Errorf("failed to parse items"),
                              <<"HTTPClient.Do", "io.ReadAll", "Unmarshal(apiResponse)",
                                "Unmarshal(paginatedResponse)", "Unmarshal(items)">>)
                         EXCEPT !.page = PaginatedResult(items.v, paginated.v.NextURL)]
                   ELSE [page |-> PaginatedResult(items.v, paginated.v.NextURL),
                         err |-> Nil,
                         trace |-> <<"newRequest", "HTTPClient.Do", "io.ReadAll",
                                     "Unmarshal(apiResponse)", "Unmarshal(paginatedResponse)",
                                     "Unmarshal(items)">>,
                         req |-> nr.req]

\* GetPaginated[T]: [page, err, trace, req]
GetPaginated(c, path, params, T, x) ==
    LET nr == newRequest(c, "GET", buildURL(c, path), Query(params), "none")
        sent(e, steps) == [page |-> NilPage, err |-> e,
                           trace |-> <<"newRequest">> \o steps, req |-> nr.req]
    IN
    IF nr.err # Nil
    THEN [page |-> NilPage, err |-> nr.err, trace |-> <<"newRequest">>, req |-> <<>>]
    ELSE IF x.outcome = "doerr"
    THEN sent(Errorf("request failed"), <<"HTTPClient.Do">>)
    ELSE IF x.outcome = "readerr"
    THEN sent(Errorf("failed to read response"), <<"HTTPClient.Do", "io.ReadAll">>)
    ELSE IF x.status >= 400
    THEN sent(parseErrorResponse(x.status, x.body),
              <<"HTTPClient.Do", "io.ReadAll", "parseErrorResponse">>)
    ELSE LET apiResp == Unmarshal(x.body, apiResponse, Zero(apiResponse)) IN
         IF apiResp.err
         THEN sent(Errorf("failed to parse response"),
                   <<"HTTPClient.Do", "io.ReadAll", "Unmarshal(apiResponse)">>)
         ELSE LET paginated == Unmarshal(apiResp.v.Response, paginatedResponse,
                                         Zero(paginatedResponse)) IN
              IF paginated.err
              THEN sent(Errorf("failed to parse paginated response"),
                        <<"HTTPClient.Do", "io.ReadAll", "Unmarshal(apiResponse)",
                          "Unmarshal(paginatedResponse)">>)
              ELSE LET items == Unmarshal(paginated.v.Items, TSlice(T), <<>>) IN
                   IF items.err
                   THEN sent(Errorf("failed to parse items"),
                             <<"HTTPClient.Do", "io.ReadAll", "Unmarshal(apiResponse)",
                               "Unmarshal(paginatedResponse)", "Unmarshal(items)">>)
                   ELSE [page |-> PaginatedResult(items.v, paginated.v.NextURL),
                         err |-> Nil,
                         trace |-> <<"newRequest", "HTTPClient.Do", "io.ReadAll",
                                     "Unmarshal(apiResponse)", "Unmarshal(paginatedResponse)",
                                     "Unmarshal(items)">>,
                         req |-> nr.req]

\* a decimal digit as text
Digit(d) == SubSeq("0123456789", d + 1, d + 1)

RECURSIVE Itoa(_)
\* fmt.Sprintf("%d", n) of a natural number
Itoa(n) == IF n < 10 THEN Digit(n) ELSE Itoa(n \div 10) \o Digit(n % 10)

\* PaginationParams.ToMap: only the positive ones are sent
ToMap(p) ==
    (IF p.Limit > 0 THEN <<<<"limit", Itoa(p.Limit)>>>> ELSE <<>>)
    \o (IF p.Offset > 0 THEN <<<<"offset", Itoa(p.Offset)>>>> ELSE <<>>)

\* Client.GetShowEpisodes
GetShowEpisodes(c, showID, pagination, x) ==
    GetPaginated(c, "/shows/{show_id}/episodes", ToMap(pagination), Episode, x)

\* Client.CheckAuth
CheckAuth(c) ==
    IF c.Token = "" THEN Errorf("authentication required: this endpoint requires an OAuth token")
    ELSE Nil

\* Client.UploadEpisode: [err, result, trace, req]; mediaFile is the path
\* ("" when not given) and file what the path names
UploadEpisode(c, showID, title, mediaFile, file, x) ==
    IF CheckAuth(c) # Nil THEN Local(CheckAuth(c), TRUE, EpisodeResponse, <<>>)
    ELSE IF title = "" THEN Local(Errorf("title is required"), TRUE, EpisodeResponse, <<>>)
    ELSE IF mediaFile = "" THEN Local(Errorf("media_file is required"), TRUE, EpisodeResponse, <<>>)
    ELSE PostFormWithFile(c, "/shows/{show_id}/episodes", <<<<"title", title>>>>,
                          "media_file", file, TRUE, EpisodeResponse, x)

(***************************************************************************)
(* Endpoint wrappers that require a token.  Each yields [err, result,      *)
(* trace, req]; result is the pointer the wrapper returns, nil with every  *)
(* error.                                                                  *)
(***************************************************************************)
\* "return nil, err" or "return &resp.<field>, nil" after a verb helper
Returned(out, field) ==
    [out EXCEPT !.result = IF out.err # Nil THEN NoResult ELSE ResultOf(out.result.v[field])]

\* a wrapper that stops before it calls a verb helper
Refused(e) == [err |-> e, result |-> NoResult, trace |-> <<>>, req |-> <<>>]

\* Client.GetMe
GetMe(c, x) ==
    IF c.Token = "" THEN Refused(Errorf("authentication required: call login first"))
    ELSE Returned(Get(c, "/me", <<>>, TRUE, UserResponse, x), "User")

\* Client.CreateShow
CreateShow(c, title, x) ==
    IF c.Token = "" THEN Refused(Errorf("authentication required"))
    ELSE Returned(PostForm(c, "/shows", <<<<"title", title>>>>, TRUE, ShowResponse, x), "Show")

\* Client.DeleteShow without its token test
DeleteShow_unchecked(c, showID, x) ==
    Delete(c, "/shows/{show_id}", FALSE, TRaw, x)

\* Client.DeleteShow
DeleteShow(c, showID, x) ==
    IF c.Token = "" THEN Refused(Errorf("authentication required"))
    ELSE Delete(c, "/shows/{show_id}", FALSE, TRaw, x)

\* Client.DeleteEpisode
DeleteEpisode(c, episodeID, x) ==
    IF CheckAuth(c) # Nil THEN Refused(CheckAuth(c))
    ELSE Delete(c, "/episodes/{episode_id}", FALSE, TRaw, x)

\* the longest text CreateMessage accepts
MaxTextLen == 4000

\* len(text) of a Go string: the bytes of its UTF-8 encoding.  A text is
\* given by the number of its characters and the bytes each of them takes
len(text) == text.chars * text.width

\* Client.CreateMessage
CreateMessage(c, episodeID, text, x) ==
    IF CheckAuth(c) # Nil THEN Refused(CheckAuth(c))
    ELSE IF len(text) = 0 THEN Refused(Errorf("text is required"))
    ELSE IF len(text) > MaxTextLen
    THEN Refused(Errorf("text exceeds maximum length of 4000 characters"))
    ELSE Post(c, "/episodes/{episode_id}/messages", "json", FALSE, TRaw, x)

(***************************************************************************)
(* UpdateShow and UpdateEpisode.  A parameter is a pointer: <<>> for nil,  *)
(* <<v>> for a pointer to v.                                               *)
(***************************************************************************)
\* fields[key] = value when the pointer is set
FieldIf(p, key, value) == IF p # <<>> THEN <<<<key, value>>>> ELSE <<>>

\* "true" or "false" for *p
BoolText(p) == IF p # <<>> /\ p[1] THEN "true" ELSE "false"

\* fmt.Sprintf("%d", *p)
IntText(p) == IF p # <<>> THEN Itoa(p[1]) ELSE ""

\* *p of a *string
StringText(p) == IF p # <<>> THEN p[1] ELSE ""

RECURSIVE JoinTags(_)
\* the tags with a comma between them
JoinTags(tags) ==
    IF tags = <<>> THEN ""
    ELSE IF Len(tags) = 1 THEN tags[1]
    ELSE tags[1] \o "," \o JoinTags(Tail(tags))

\* the form fields UpdateShow builds from its parameters
UpdateShowFields(params) ==
    FieldIf(params.Title, "title", StringText(params.Title))
    \o FieldIf(params.Description, "description", StringText(params.Description))
    \o FieldIf(params.CategoryID, "category_id", IntText(params.CategoryID))
    \o FieldIf(params.Language, "language", StringText(params.Language))
    \o FieldIf(params.Explicit, "explicit", BoolText(params.Explicit))

\* UpdateShow leaving out the parameters that point to a zero value
UpdateShow_nonzero(c, showID, params, x) ==
    IF c.Token = "" THEN Refused(Errorf("authentication required"))
    ELSE Returned(PostForm(c, "/shows/{show_id}",
                           SelectSeq(UpdateShowFields(params),
                                     LAMBDA f : f[2] \notin {"", "0", "false"}),
                           TRUE, ShowResponse, x), "Show")

\* Client.UpdateShow
UpdateShow(c, showID, params, x) ==
    IF c.Token = "" THEN Refused(Errorf("authentication required"))
    ELSE Returned(PostForm(c, "/shows/{show_id}", UpdateShowFields(params),
                           TRUE, ShowResponse, x), "Show")

\* the form fields UpdateEpisode builds from its parameters
UpdateEpisodeFields(params) ==
    FieldIf(params.Title, "title", StringText(params.Title))
    \o FieldIf(params.Description, "description", StringText(params.Description))
    \o FieldIf(params.Tags, "tags", IF params.Tags # <<>> THEN JoinTags(params.Tags[1]) ELSE "")
    \o FieldIf(params.Explicit, "explicit", BoolText(params.Explicit))
    \o FieldIf(params.DownloadEnabled, "download_enabled", BoolText(params.DownloadEnabled))
    \o FieldIf(params.Hidden, "hidden", BoolText(params.Hidden))
    \o FieldIf(params.ShowID, "show_id", IntText(params.ShowID))
    \o FieldIf(params.AutoPublishedAt, "auto_published_at", StringText(params.AutoPublishedAt))

\* Client.UpdateEpisode
UpdateEpisode(c, episodeID, params, x) ==
    IF CheckAuth(c) # Nil THEN Refused(CheckAuth(c))
    ELSE Returned(PostForm(c, "/episodes/{episode_id}", UpdateEpisodeFields(params),
                           TRUE, EpisodeResponse, x), "Episode")

\* what CheckUserLikesEpisode returns after c.Get returned out
Likes(liked, e, out) == [liked |-> liked, err |-> e, trace |-> out.trace, req |-> out.req]

\* CheckUserLikesEpisode taking every APIError for "not liked"
CheckUserLikesEpisode_any(c, userID, episodeID, out) ==
    IF out.err # Nil
    THEN IF out.err.type = "APIError" THEN Likes(FALSE, Nil, out)
         ELSE Likes(FALSE, out.err, out)
    ELSE Likes(TRUE, Nil, out)

\* Client.CheckUserLikesEpisode: [liked, err, trace, req]; out is what
\* c.Get(path, nil, &resp) returned
CheckUserLikesEpisode(c, userID, episodeID, out) ==
    IF out.err # Nil
    THEN IF out.err.type = "APIError" /\ IsNotFound(out.err) THEN Likes(FALSE, Nil, out)
         ELSE Likes(FALSE, out.err, out)
    ELSE Likes(TRUE, Nil, out)

(***************************************************************************)
(* GetEpisodeDownloadURL: one exchange through a client of its own that    *)
(* does not follow redirects.  Yields [url, err, trace, req, client], the  *)
(* last being the Client as the call leaves it.                            *)
(***************************************************************************)
\* what noRedirectClient.Do returns: a status and the Location header
Redirect(s, location) == [outcome |-> "ok", status |-> s, location |-> location]

\* the statuses on which http.Client prepares the next request of a redirect
RedirectStatuses == {301, 302, 303, 307, 308}

\* a Location header that url.Parse rejects
BadLocation == "://cdn.spreaker.com/456.mp3"

\* noRedirectClient.Do returns the response: the exchange took place, and
\* the Location of a redirect, when there is one, could be parsed.  The
\* client parses it to build the next request before it asks CheckRedirect,
\* which then stops it with ErrUseLastResponse
DoReturns(rx) ==
    rx.outcome = "ok" /\ ~(rx.status \in RedirectStatuses /\ rx.location = BadLocation)

\* GetEpisodeDownloadURL with a client that follows the redirect and reports
\* where it ended
GetEpisodeDownloadURL_follow(c, episodeID, rx) ==
    LET urlStr == buildURL(c, "/episodes/{episode_id}/download")
        nr == newRequest(c, "GET", urlStr, <<>>, "none")
        left(u, e, steps) == [url |-> u, err |-> e, trace |-> <<"newRequest">> \o steps,
                              req |-> nr.req, client |-> c]
    IN  IF nr.err # Nil THEN left("", nr.err, <<>>)
        ELSE IF ~DoReturns(rx) THEN left("", Errorf("request failed"), <<"noRedirectClient.Do">>)
        ELSE IF rx.status \in RedirectStatuses /\ rx.location # ""
        THEN left(urlStr, Nil, <<"noRedirectClient.Do", "noRedirectClient.Do">>)
        ELSE IF rx.status >= 300 /\ rx.status < 400
        THEN IF rx.location # "" THEN left(rx.location, Nil, <<"noRedirectClient.Do">>)
             ELSE left("", Errorf("redirect response but no Location header"),
                       <<"noRedirectClient.Do">>)
        ELSE IF rx.status = 200 THEN left(urlStr, Nil, <<"noRedirectClient.Do">>)
        ELSE left("", Errorf("unexpected status code"), <<"noRedirectClient.Do">>)

\* GetEpisodeDownloadURL switching off redirects on the HTTP client of the Client
GetEpisodeDownloadURL_shared(c, episodeID, rx) ==
    LET urlStr == buildURL(c, "/episodes/{episode_id}/download")
        nr == newRequest(c, "GET", urlStr, <<>>, "none")
        left(u, e, steps) == [url |-> u, err |-> e, trace |-> <<"newRequest">> \o steps,
                              req |-> nr.req, client |-> [c EXCEPT !.CheckRedirect = "none"]]
    IN  IF nr.err # Nil THEN left("", nr.err, <<>>)
        ELSE IF ~DoReturns(rx) THEN left("", Errorf("request failed"), <<"noRedirectClient.Do">>)
        ELSE IF rx.status >= 300 /\ rx.status < 400
        THEN IF rx.location # "" THEN left(rx.location, Nil, <<"noRedirectClient.Do">>)
             ELSE left("", Errorf("redirect response but no Location header"),
                       <<"noRedirectClient.Do">>)
        ELSE IF rx.status = 200 THEN left(urlStr, Nil, <<"noRedirectClient.Do">>)
        ELSE left("", Errorf("unexpected status code"), <<"noRedirectClient.Do">>)

GetEpisodeDownloadURL(c, episodeID, rx) ==
    LET urlStr == buildURL(c, "/episodes/{episode_id}/download")
        nr == newRequest(c, "GET", urlStr, <<>>, "none")
        left(u, e, steps) == [url |-> u, err |-> e, trace |-> <<"newRequest">> \o steps,
                              req |-> nr.req, client |-> c]
    IN  IF nr.err # Nil THEN left("", nr.err, <<>>)
        ELSE IF ~DoReturns(rx) THEN left("", Errorf("request failed"), <<"noRedirectClient.Do">>)
        ELSE IF rx.status >= 300 /\ rx.status < 400
        THEN IF rx.location # "" THEN left(rx.location, Nil, <<"noRedirectClient.Do">>)
             ELSE left("", Errorf("redirect response but no Location header"),
                       <<"noRedirectClient.Do">>)
        ELSE IF rx.status = 200 THEN left(urlStr, Nil, <<"noRedirectClient.Do">>)
        ELSE left("", Errorf("unexpected status code"), <<"noRedirectClient.Do">>)

(***************************************************************************)
(* Inputs: what the server may answer and what the callers may pass.       *)
(***************************************************************************)
\* all sequences over S of length at most n
RECURSIVE SeqsUpTo(_, _)
SeqsUpTo(S, n) ==
    IF n = 0 THEN {<<>>}
    ELSE LET shorter == SeqsUpTo(S, n - 1)
         IN  shorter \cup {Append(q, e) : q \in {r \in shorter : Len(r) = n - 1}, e \in S}

Statuses == {200, 204, 399, 400, 401, 404, 429, 500}

\* {"error": {"code": c, "messages": [...]}}
ErrorPayload(c, ms) ==
    JObj(<<KV("error", JObj(<<KV("code", JNum(c)),
                              KV("messages", JArr([i \in 1..Len(ms) |-> JStr(ms[i])]))>>))>>)

ErrorPayloads ==
    {ErrorPayload(c, ms) : c \in {0, 7}, ms \in SeqsUpTo({"show not found", "try later"}, MaxMsgs)}
    \cup {JObj(<<KV("error", JObj(<<KV("code", JStr("7")), KV("messages", JArr(<<JStr("show not found")>>))>>))>>),
          JObj(<<KV("error", JObj(<<KV("code", JNum(7)), KV("messages", JStr("show not found"))>>))>>),
          JObj(<<KV("error", JStr("show not found"))>>)}

ShowPayloads ==
    {JObj(<<KV("show", JObj(<<KV("show_id", JNum(123)), KV("title", JStr("Foo"))>>))>>),
     JObj(<<KV("show", JObj(<<KV("show_id", JStr("123")), KV("title", JStr("Foo"))>>))>>),
     JObj(<<KV("show", JStr("Foo"))>>),
     JObj(<<KV("extra", JNum(1)), KV("show", JObj(<<KV("title", JStr("Foo")), KV("show_id", JNum(123))>>))>>),
     JObj(<<>>), JNull, JStr("Foo"), JArr(<<>>)}

\* an element of "items": two episodes and something that is no episode
\* the titles of the episodes: the same title twice, and titles with
\* characters that do not go into a file name
TitleOf(id) ==
    IF id < 10 THEN "ep"
    ELSE IF id % 10 = 2 THEN "a/b"
    ELSE IF id > 20 THEN "ep?" ELSE "ep"

EpisodeJSON(id) == JObj(<<KV("episode_id", JNum(id)), KV("title", JStr(TitleOf(id)))>>)
ItemValues == {EpisodeJSON(1), EpisodeJSON(2), JStr("ep")}

\* a next_url as the API sends it
NextPageURL == "https://api.spreaker.com/v2/shows/1/episodes?limit=2&last_id=42"

\* {"items": ..., "next_url": ...}; NoBytes stands for a member left out
PagePayload(items, next) ==
    JObj((IF items # NoBytes THEN <<KV("items", items)>> ELSE <<>>)
         \o (IF next # NoBytes THEN <<KV("next_url", next)>> ELSE <<>>))

PagePayloads ==
    {PagePayload(items, next) :
        items \in {NoBytes, JNull, JObj(<<>>)} \cup {JArr(a) : a \in SeqsUpTo(ItemValues, MaxItems)},
        next \in {NoBytes, JNull, JNum(2), JStr(""),
                  JStr(NextPageURL)}}

\* the outer texts around a payload
Wrapped(P) ==
    {JObj(<<KV("response", v)>>) : v \in P}
    \cup {NoBytes, NotJSON, JNull, JStr("ok"), JArr(<<>>), JObj(<<>>),
          JObj(<<KV("Response", JObj(<<>>))>>),
          JObj(<<KV("show", JObj(<<KV("show_id", JNum(9)), KV("title", JStr("Other"))>>)),
                 KV("response", JObj(<<KV("show", JObj(<<KV("show_id", JNum(123))>>))>>))>>),
          JObj(<<KV("response", JNum(1)), KV("response", JNull)>>)}

VerbBodies == Wrapped(ErrorPayloads \cup ShowPayloads)
PageBodies == Wrapped(ErrorPayloads \cup PagePayloads)

Exchanges(bodies) ==
    {DoFails} \cup {ReadFails(s) : s \in {200, 500}}
    \cup {Response(s, b) : s \in Statuses, b \in bodies}

VerbExchanges == Exchanges(VerbBodies)
PageExchanges == Exchanges(PageBodies)

Tokens == {"", "tok"}
BaseURLs == {"", "http://localhost:8080", "http://localhost:8080/", BadBaseURL}
\* timeouts in seconds: negative, zero, positive
Timeouts == {-1, 0, 5}
Files == {"missing", "denied", "dir", "ok"}
ParamSets == {<<>>, <<<<"limit", "2">>>>, <<<<"limit", "2">>, <<"q", "a b">>>>, <<<<"q", "x&y=z">>>>}
\* what the download endpoint may answer
DownloadExchanges ==
    {DoFails} \cup {Redirect(st, l) : st \in {200, 204, 299, 300, 302, 399, 400, 404, 500},
                                      l \in {"", "https://cdn.spreaker.com/456.mp3", BadLocation}}
\* the parameters given to UpdateShow: nil, a zero value, another value
ShowUpdates ==
    [Title : {<<>>, <<"">>, <<"New">>}, Description : {<<>>, <<"">>},
     CategoryID : {<<>>, <<0>>, <<7>>}, Language : {<<>>, <<"it">>},
     Explicit : {<<>>, <<FALSE>>, <<TRUE>>}]

\* the parameters given to UpdateEpisode
EpisodeUpdates ==
    [Title : {<<>>, <<"">>}, Description : {<<>>, <<"d">>},
     Tags : {<<>>, <<<<>>>>, <<<<"a", "b">>>>}, Explicit : {<<>>, <<FALSE>>},
     DownloadEnabled : {<<>>, <<TRUE>>}, Hidden : {<<>>, <<FALSE>>},
     ShowID : {<<>>, <<0>>}, AutoPublishedAt : {<<>>, <<"">>}]

\* what the server may answer to an update
UpdateExchanges ==
    {DoFails,
     Response(200, JObj(<<KV("response",
                             JObj(<<KV("show", JObj(<<KV("show_id", JNum(123)),
                                                      KV("title", JStr("New"))>>)),
                                    KV("episode", EpisodeJSON(456))>>))>>))}

\* what the server may answer to "does this user like this episode"
LikeExchanges ==
    {DoFails, ReadFails(200), ReadFails(404)}
    \cup {Response(st, b) :
            st \in {200, 204, 399, 400, 401, 404, 500},
            b \in {NoBytes, NotJSON,
                   JObj(<<KV("response", JObj(<<KV("episode", EpisodeJSON(456))>>))>>),
                   JObj(<<KV("response", JObj(<<KV("episode", JStr("ep"))>>))>>),
                   JObj(<<KV("response", ErrorPayload(7, <<"show not found">>))>>)}}

\* the messages tried, around both limits: texts of one-byte characters
\* (ASCII) and of two-byte characters (such as "\u00e9")
Texts ==
    {[chars |-> n, width |-> 1] : n \in {0, 1, MaxTextLen, MaxTextLen + 1}}
    \cup {[chars |-> n, width |-> 2] : n \in {1, MaxTextLen \div 2, MaxTextLen \div 2 + 1}}

(***************************************************************************)
(* State: the client of this run of the program, the last call made on it  *)
(* with its outcome, and the position of "episodes download-all".          *)
(***************************************************************************)
VARIABLES client, call, dl, cli

vars == <<client, call, dl, cli>>

NoExchange == [outcome |-> "none", status |-> 0, body |-> NoBytes]
NoCall == [op |-> "none"]
DLIdle == [pc |-> "idle"]
CLIIdle == [pc |-> "idle"]

\* the record of a finished call; the exchange is kept only when it took place
Called(op, wantResult, file, xc, out) ==
    [op |-> op, wantResult |-> wantResult, file |-> file,
     x |-> IF \E i \in 1..Len(out.trace) : out.trace[i] = "HTTPClient.Do" THEN xc ELSE NoExchange,
     err |-> out.err, trace |-> out.trace, req |-> out.req,
     result |-> IF "result" \in DOMAIN out THEN out.result ELSE NoResult,
     page |-> IF "page" \in DOMAIN out THEN out.page ELSE NilPage]

\* the arguments a Client is constructed with: every token and base URL
\* with timeout 0, as getClient does, and the other timeouts with a token
ClientOptions ==
    {<<t, b, 0>> : t \in Tokens, b \in BaseURLs}
    \cup {<<"tok", b, to>> : b \in {"", "http://localhost:8080"}, to \in Timeouts}

Init ==
    /\ client \in {NewClientWithOptions(o[1], o[2], o[3]) : o \in ClientOptions}
    /\ call = NoCall
    /\ dl = DLIdle
    /\ cli = CLIIdle

CallGet ==
    /\ call = NoCall /\ dl = DLIdle /\ cli = CLIIdle
    /\ \E params \in ParamSets, want \in BOOLEAN, xc \in VerbExchanges :
        /\ call' = Called("Get", want, "none", xc,
                          Get(client, "/shows/123", params, want, ShowResponse, xc))
                   @@ [params |-> params]
        /\ dl' = DLIdle
        /\ UNCHANGED <<client, cli>>

CallPost ==
    /\ call = NoCall /\ dl = DLIdle /\ cli = CLIIdle
    /\ \E body \in {"nil", "json"}, want \in BOOLEAN, xc \in VerbExchanges :
        /\ call' = Called("Post", want, "none", xc,
                          Post(client, "/shows/123", body, want, ShowResponse, xc))
                   @@ [body |-> body]
        /\ dl' = DLIdle
        /\ UNCHANGED <<client, cli>>

CallPostForm ==
    /\ call = NoCall /\ dl = DLIdle /\ cli = CLIIdle
    /\ \E want \in BOOLEAN, xc \in VerbExchanges :
        /\ call' = Called("PostForm", want, "none", xc,
                          PostForm(client, "/shows/123", <<<<"title", "Foo">>>>, want, ShowResponse, xc))
        /\ dl' = DLIdle
        /\ UNCHANGED <<client, cli>>

CallPostFormWithFile ==
    /\ call = NoCall /\ dl = DLIdle /\ cli = CLIIdle
    /\ \E file \in Files, want \in BOOLEAN, xc \in VerbExchanges :
        /\ file # "ok" => xc = DoFails
        /\ call' = Called("PostFormWithFile", want, file, xc,
                          PostFormWithFile(client, "/shows/123", <<<<"title", "Foo">>>>,
                                           "media_file", file, want, ShowResponse, xc))
        /\ dl' = DLIdle
        /\ UNCHANGED <<client, cli>>

CallPut ==
    /\ call = NoCall /\ dl = DLIdle /\ cli = CLIIdle
    /\ \E want \in BOOLEAN, xc \in VerbExchanges :
        /\ call' = Called("Put", want, "none", xc,
                          Put(client, "/shows/123", want, ShowResponse, xc))
        /\ dl' = DLIdle
        /\ UNCHANGED <<client, cli>>

CallDelete ==
    /\ call = NoCall /\ dl = DLIdle /\ cli = CLIIdle
    /\ \E want \in BOOLEAN, xc \in VerbExchanges :
        /\ call' = Called("Delete", want, "none", xc,
                          Delete(client, "/shows/123", want, ShowResponse, xc))
        /\ dl' = DLIdle
        /\ UNCHANGED <<client, cli>>

CallGetPaginated ==
    /\ call = NoCall /\ dl = DLIdle /\ cli = CLIIdle
    /\ \E params \in ParamSets, xc \in PageExchanges :
        /\ call' = Called("GetPaginated", TRUE, "none", xc,
                          GetPaginated(client, "/shows/123/episodes", params, Episode, xc))
                   @@ [params |-> params]
        /\ dl' = DLIdle
        /\ UNCHANGED <<client, cli>>

CallUploadEpisode ==
    /\ call = NoCall /\ dl = DLIdle /\ cli = CLIIdle
    /\ \E title \in {"", "Foo"}, mediaFile \in {"", "a.mp3"}, file \in Files,
       xc \in VerbExchanges :
        /\ mediaFile = "" => file = "missing"
        /\ (title = "" \/ file # "ok") => xc = DoFails
        /\ call' = [Called("UploadEpisode", TRUE, file, xc,
                           UploadEpisode(client, 123, title, mediaFile, file, xc))
                    EXCEPT !.op = IF title = "" THEN "UploadEpisode(no title)"
                                  ELSE IF mediaFile = "" THEN "UploadEpisode(no media_file)"
                                  ELSE "UploadEpisode"]
        /\ dl' = DLIdle
        /\ UNCHANGED <<client, cli>>

CallGetMe ==
    /\ call = NoCall /\ dl = DLIdle /\ cli = CLIIdle
    /\ \E xc \in VerbExchanges :
        /\ client.Token = "" => xc = DoFails
        /\ call' = Called("GetMe", TRUE, "none", xc, GetMe(client, xc))
        /\ dl' = DLIdle
        /\ UNCHANGED <<client, cli>>

CallCreateShow ==
    /\ call = NoCall /\ dl = DLIdle /\ cli = CLIIdle
    /\ \E xc \in VerbExchanges :
        /\ client.Token = "" => xc = DoFails
        /\ call' = Called("CreateShow", TRUE, "none", xc, CreateShow(client, "Foo", xc))
        /\ dl' = DLIdle
        /\ UNCHANGED <<client, cli>>

CallDeleteShow ==
    /\ call = NoCall /\ dl = DLIdle /\ cli = CLIIdle
    /\ \E xc \in VerbExchanges :
        /\ call' = Called("DeleteShow", FALSE, "none", xc, DeleteShow(client, 123, xc))
        /\ dl' = DLIdle
        /\ UNCHANGED <<client, cli>>

CallDeleteEpisode ==
    /\ call = NoCall /\ dl = DLIdle /\ cli = CLIIdle
    /\ \E xc \in VerbExchanges :
        /\ client.Token = "" => xc = DoFails
        /\ call' = Called("DeleteEpisode", FALSE, "none", xc, DeleteEpisode(client, 456, xc))
        /\ dl' = DLIdle
        /\ UNCHANGED <<client, cli>>

CallCreateMessage ==
    /\ call = NoCall /\ dl = DLIdle /\ cli = CLIIdle
    /\ \E text \in Texts, xc \in VerbExchanges :
        /\ (client.Token = "" \/ len(text) = 0 \/ len(text) > MaxTextLen) => xc = DoFails
        /\ call' = Called("CreateMessage", FALSE, "none", xc,
                          CreateMessage(client, 456, text, xc))
                   @@ [text |-> text]
        /\ dl' = DLIdle
        /\ UNCHANGED <<client, cli>>

CallUpdateShow ==
    /\ call = NoCall /\ dl = DLIdle /\ cli = CLIIdle
    /\ \E params \in ShowUpdates, xc \in UpdateExchanges :
        /\ client.Token = "" => xc = DoFails
        /\ call' = Called("UpdateShow", TRUE, "none", xc, UpdateShow(client, 123, params, xc))
                   @@ [params |-> params]
        /\ dl' = DLIdle
        /\ UNCHANGED <<client, cli>>

CallUpdateEpisode ==
    /\ call = NoCall /\ dl = DLIdle /\ cli = CLIIdle
    /\ \E params \in EpisodeUpdates, xc \in UpdateExchanges :
        /\ client.Token = "" => xc = DoFails
        /\ call' = Called("UpdateEpisode", TRUE, "none", xc,
                          UpdateEpisode(client, 456, params, xc))
                   @@ [params |-> params]
        /\ dl' = DLIdle
        /\ UNCHANGED <<client, cli>>

CallCheckUserLikesEpisode ==
    /\ call = NoCall /\ dl = DLIdle /\ cli = CLIIdle
    /\ \E xc \in LikeExchanges :
        \E got \in {Get(client, "/users/{user_id}/likes/{episode_id}", <<>>, TRUE,
                        EpisodeResponse, xc)} :
            \* err is the error of the request, returned the one of the method
            /\ call' = Called("CheckUserLikesEpisode", TRUE, "none", xc, got)
                       @@ [liked |-> CheckUserLikesEpisode(client, 7, 456, got).liked,
                           returned |-> CheckUserLikesEpisode(client, 7, 456, got).err]
            /\ dl' = DLIdle
            /\ UNCHANGED <<client, cli>>

CallGetEpisodeDownloadURL ==
    /\ call = NoCall /\ dl = DLIdle /\ cli = CLIIdle
    /\ \E rx \in DownloadExchanges :
        \E out \in {GetEpisodeDownloadURL(client, 456, rx)} :
            /\ call' = Called("GetEpisodeDownloadURL", TRUE, "none", NoExchange, out)
                       @@ [url |-> out.url,
                           rx |-> IF Len(out.trace) >= 2 THEN rx ELSE NoExchange]
            /\ client' = out.client
            /\ dl' = DLIdle
            /\ UNCHANGED cli

(***************************************************************************)
(* episodes download-all: collecting the episodes page by page.  The       *)
(* server is a script of pages; request number n is answered with page n   *)
(* of the script, or fails.                                                *)
(***************************************************************************)
\* page number i of a script of K pages, holding n episodes
ScriptPage(i, n, K) ==
    [ids |-> [j \in 1..n |-> 10 * i + j], next |-> IF i < K THEN NextPageURL ELSE ""]

\* the scripts: every page but the last has a next_url, the last has none
Scripts ==
    UNION {{[i \in 1..K |-> ScriptPage(i, n[i], K)] : n \in [1..K -> 0..MaxItems]} : K \in 1..MaxPages}

\* the body the server sends for a page of the script
PageBody(pg) ==
    JObj(<<KV("response",
              PagePayload(JArr([j \in 1..Len(pg.ids) |-> EpisodeJSON(pg.ids[j])]), JStr(pg.next)))>>)

\* how a page request may end other than with the page
PageFailures == {DoFails, Response(500, NotJSON)}

\* the answer to page request number n
PageExchange(script, n, fail) ==
    IF fail # NoExchange THEN fail
    ELSE Response(200, PageBody(script[IF n <= Len(script) THEN n ELSE Len(script)]))

ShowExchanges ==
    {DoFails, Response(404, NotJSON),
     Response(200, JObj(<<KV("response", JObj(<<KV("show", JObj(<<KV("show_id", JNum(1)), KV("title", JStr("Foo"))>>))>>))>>))}

RECURSIVE Collect(_, _, _)
\* the loop over result.Items: append each episode, stop once the limit is reached
Collect(allEpisodes, items, limit) ==
    IF items = <<>> THEN allEpisodes
    ELSE LET more == Append(allEpisodes, [ID |-> Head(items).EpisodeID, Title |-> Head(items).Title])
         IN  IF limit > 0 /\ Len(more) >= limit THEN more
             ELSE Collect(more, Tail(items), limit)

\* download-all stopped with an error before or while collecting
DLFailed(d, e) == [d EXCEPT !.pc = "failed", !.err = e]

\* "result, err = client.GetShowEpisodes(...)" asked for lim episodes and what
\* follows it: the error return, or the loop over result.Items
DLTakePage(d, lim, page) ==
    LET sent == IF page.req # <<>> THEN 1 ELSE 0
        d1 == [d EXCEPT !.requests = @ + sent,
                        !.reqLimits = IF sent = 1 THEN Append(@, lim) ELSE @,
                        !.result = page.page]
    IN  IF page.err # Nil THEN DLFailed(d1, page.err)
        ELSE [d1 EXCEPT !.pc = "loop",
                        !.allEpisodes = Collect(d.allEpisodes, page.page.Items, d.limit)]

\* runEpisodesDownloadAll up to the first page: the client, the show, the
\* output directory, then the first GetShowEpisodes
DLStart ==
    /\ call = NoCall /\ dl = DLIdle /\ cli = CLIIdle
    /\ \E limit \in 0..MaxLimit, script \in Scripts, sx \in ShowExchanges,
          mkdirOK \in BOOLEAN, fail \in PageFailures \cup {NoExchange} :
        \* what follows a failed step is not drawn
        /\ client.Token = "" => sx = DoFails
        /\ sx.status # 200 => mkdirOK
        /\ ~mkdirOK => fail = NoExchange
        /\ LET pageLimit == IF limit > 0 /\ limit < 100 THEN limit ELSE 100
               d0 == [pc |-> "start", limit |-> limit, pageLimit |-> pageLimit, script |-> script,
                      requests |-> 0, reqLimits |-> <<>>, result |-> NilPage,
                      allEpisodes |-> <<>>, err |-> Nil]
               show == Get(client, "/shows/{show_id}", <<>>, TRUE, ShowResponse, sx)
           IN
           /\ dl' = IF client.Token = "" THEN DLFailed(d0, Errorf("not authenticated"))
                    ELSE IF show.err # Nil THEN DLFailed(d0, show.err)
                    ELSE IF ~mkdirOK THEN DLFailed(d0, Errorf("failed to create directory"))
                    ELSE DLTakePage(d0, pageLimit,
                                    GetShowEpisodes(client, 1, [Limit |-> pageLimit, Offset |-> 0],
                                                    PageExchange(script, 1, fail)))
           /\ UNCHANGED <<client, call, cli>>

\* one turn of "for result.HasMore && (limit == 0 || len(allEpisodes) < limit)"
DLNextPage ==
    /\ dl.pc = "loop"
    /\ dl.result.HasMore /\ (dl.limit = 0 \/ Len(dl.allEpisodes) < dl.limit)
    /\ \E fail \in PageFailures \cup {NoExchange} :
        LET remaining == dl.limit - Len(dl.allEpisodes)
            nextLimit == IF dl.limit > 0 /\ remaining < dl.pageLimit THEN remaining ELSE dl.pageLimit
        IN
        \* result.Items[len(result.Items)-1] of an empty page: index out of range
        /\ dl' = IF Len(dl.result.Items) = 0 THEN [dl EXCEPT !.pc = "panic"]
                 ELSE DLTakePage(dl, nextLimit,
                                 GetShowEpisodes(client, 1, [Limit |-> nextLimit, Offset |-> 0],
                                                 PageExchange(dl.script, dl.requests + 1, fail)))
        /\ UNCHANGED <<client, call, cli>>

\* the loop condition is false: collecting is over
DLCollected ==
    /\ dl.pc = "loop"
    /\ ~(dl.result.HasMore /\ (dl.limit = 0 \/ Len(dl.allEpisodes) < dl.limit))
    /\ dl' = [dl EXCEPT !.pc = IF Len(dl.allEpisodes) = 0 THEN "done" ELSE "collected"]
    /\ UNCHANGED <<client, call, cli>>

(***************************************************************************)
(* episodes download-all: the download loop over the collected episodes.   *)
(* The file system is the set of the paths at which a file exists.         *)
(***************************************************************************)
\* what the replacer of sanitizeFilename makes of one character
Replaced(ch) ==
    IF ch \in {"/", "\\", ":"} THEN "-"
    ELSE IF ch \in {"*", "?", "\"", "<", ">", "|", "\r"} THEN ""
    ELSE IF ch \in {"\n", "\t"} THEN " "
    ELSE ch

RECURSIVE Replace(_)
\* replacer.Replace(name)
Replace(name) ==
    IF name = "" THEN ""
    ELSE Replaced(SubSeq(name, 1, 1)) \o Replace(SubSeq(name, 2, Len(name)))

RECURSIVE Trim(_, _)
\* strings.Trim(name, cutset) for a cutset of single characters
Trim(name, cutset) ==
    IF name = "" THEN ""
    ELSE IF SubSeq(name, 1, 1) \in cutset THEN Trim(SubSeq(name, 2, Len(name)), cutset)
    ELSE IF SubSeq(name, Len(name), Len(name)) \in cutset
    THEN Trim(SubSeq(name, 1, Len(name) - 1), cutset)
    ELSE name

\* the longest file name sanitizeFilename returns
MaxFilename == 200

\* name[:200] when name is longer, "episode" when nothing is left
Shortened(name) ==
    IF Len(name) > MaxFilename THEN SubSeq(name, 1, MaxFilename)
    ELSE IF name = "" THEN "episode"
    ELSE name

\* sanitizeFilename
sanitizeFilename(name) == Shortened(Trim(Trim(Replace(name), {" ", "\t", "\n", "\r"}), {"."}))

\* the output directory: sanitizeFilename(show.Title) of the show served
OutputDir == sanitizeFilename("Foo")

\* filepath.Join(outputDir, sanitizeFilename(ep.Title) + ".mp3")
FilePath(ep) == OutputDir \o "/" \o sanitizeFilename(ep.Title) \o ".mp3"

\* downloadFile(url, destPath): [err, files]; files are the paths that
\* exist, how is where it ends: "create" (os.Create fails), "get"
\* (http.Get fails), "status" (status is not 200), "copy" (io.Copy fails)
\* or "ok".  Once os.Create succeeded the file is there
downloadFile(url, destPath, files, how) ==
    IF how = "create" THEN [err |-> Errorf("failed to create file"), files |-> files]
    ELSE IF how = "get"
    THEN [err |-> Errorf("failed to download"), files |-> files \cup {destPath}]
    ELSE IF how = "status"
    THEN [err |-> Errorf("server returned status"), files |-> files \cup {destPath}]
    ELSE IF how = "copy"
    THEN [err |-> Errorf("failed to write file"), files |-> files \cup {destPath}]
    ELSE [err |-> Nil, files |-> files \cup {destPath}]

\* one more episode counted; what was done for it goes to last
Counted(d, counter, files, did) ==
    [d EXCEPT !.i = @ + 1,
              !.downloaded = IF counter = "downloaded" THEN @ + 1 ELSE @,
              !.skipped = IF counter = "skipped" THEN @ + 1 ELSE @,
              !.failed = IF counter = "failed" THEN @ + 1 ELSE @,
              !.files = files,
              !.last = did @@ [ep |-> d.allEpisodes[d.i + 1],
                               path |-> FilePath(d.allEpisodes[d.i + 1]),
                               existed |-> FilePath(d.allEpisodes[d.i + 1]) \in d.files,
                               counter |-> counter]]

\* what was done for an episode: the request for its download URL when it
\* was made, and how downloadFile ended when it was called
Did(url, how) == [url |-> url, how |-> how]

\* no request for a download URL
NoURL == <<>>

\* the turn of the loop from "if err := downloadFile(...)" on
Downloaded(d, got, how) ==
    IF got.err # Nil THEN Counted(d, "failed", got.files, Did(<<"ok">>, how))
    ELSE Counted(d, "downloaded", got.files, Did(<<"ok">>, how))

\* the turn of the loop from "downloadURL, err := client.GetEpisodeDownloadURL" on
Attempted(d, url, how) ==
    IF url.err # Nil THEN Counted(d, "failed", d.files, Did(<<"err">>, "none"))
    ELSE Downloaded(d, downloadFile(url.url, FilePath(d.allEpisodes[d.i + 1]), d.files, how),
                    how)

\* one turn of the download loop that stops the command at a failure
DownloadOne_abort(d, c, rx, how) ==
    IF d.skipExisting /\ FilePath(d.allEpisodes[d.i + 1]) \in d.files
    THEN Counted(d, "skipped", d.files, Did(NoURL, "none"))
    ELSE IF Attempted(d, GetEpisodeDownloadURL(c, d.allEpisodes[d.i + 1].ID, rx), how).failed
            > d.failed
    THEN [Attempted(d, GetEpisodeDownloadURL(c, d.allEpisodes[d.i + 1].ID, rx), how)
             EXCEPT !.pc = "failed", !.err = Errorf("download failed")]
    ELSE Attempted(d, GetEpisodeDownloadURL(c, d.allEpisodes[d.i + 1].ID, rx), how)

\* one turn of the download loop that takes no notice of skip-existing
DownloadOne_always(d, c, rx, how) ==
    Attempted(d, GetEpisodeDownloadURL(c, d.allEpisodes[d.i + 1].ID, rx), how)

\* one turn of "for i, ep := range allEpisodes"
DownloadOne(d, c, rx, how) ==
    IF d.skipExisting /\ FilePath(d.allEpisodes[d.i + 1]) \in d.files
    THEN Counted(d, "skipped", d.files, Did(NoURL, "none"))
    ELSE Attempted(d, GetEpisodeDownloadURL(c, d.allEpisodes[d.i + 1].ID, rx), how)

\* what the download endpoint may answer in download-all
DLURLExchanges ==
    {DoFails, Redirect(302, "https://cdn.spreaker.com/456.mp3"), Redirect(404, "")}

\* the ways downloadFile may end
DownloadOutcomes == {"create", "get", "status", "copy", "ok"}

\* the files there may be in the output directory before the command
FilesBefore == {{}, {FilePath([ID |-> 11, Title |-> "ep"])}}

\* nothing done yet for any episode
NoEpisode == [counter |-> "none"]

\* the download loop starts: --skip-existing and the output directory
DLBegin ==
    /\ dl.pc = "collected"
    /\ Len(dl.allEpisodes) <= MaxDownloads
    /\ \E skipExisting \in BOOLEAN, files \in FilesBefore :
        dl' = [pc |-> "downloading", skipExisting |-> skipExisting, files |-> files,
               before |-> files, i |-> 0, downloaded |-> 0, skipped |-> 0, failed |-> 0,
               last |-> NoEpisode]
              @@ dl
    /\ UNCHANGED <<client, call, cli>>

\* the loop takes the next episode
DLEpisode ==
    /\ dl.pc = "downloading"
    /\ dl.i < Len(dl.allEpisodes)
    /\ \E rx \in DLURLExchanges, how \in DownloadOutcomes :
        \* what the turn does not get to is not drawn
        /\ (dl.skipExisting /\ FilePath(dl.allEpisodes[dl.i + 1]) \in dl.files) =>
              (rx = DoFails /\ how = "ok")
        /\ GetEpisodeDownloadURL(client, 456, rx).err # Nil => how = "ok"
        /\ dl' = DownloadOne(dl, client, rx, how)
    /\ UNCHANGED <<client, call, cli>>

\* the loop is over: the summary is printed and the command returns nil
DLFinish ==
    /\ dl.pc = "downloading"
    /\ dl.i = Len(dl.allEpisodes)
    /\ dl' = [dl EXCEPT !.pc = "finished"]
    /\ UNCHANGED <<client, call, cli>>

(***************************************************************************)
(* The command line: the token of a command, the confirmation prompt and   *)
(* the two delete commands.  A command builds a Client of its own.         *)
(***************************************************************************)
\* what config.Load finds: the config file ("missing", "malformed" or "ok"),
\* the token and the api_url in it ("" when the key is not there), and
\* SPREAKER_TOKEN; a file that is not read has no keys
Environments ==
    {e \in [file : {"missing", "malformed", "ok"}, fileToken : {"", "filetok"},
            fileURL : {"", "http://localhost:8080"}, envToken : {"", "envtok"}] :
        e.file # "ok" => e.fileToken = "" /\ e.fileURL = ""}

\* config.DefaultConfig
DefaultConfig == [Token |-> "", APIURL |-> "https://api.spreaker.com"]

\* config.Load: [cfg, err]; the environment goes before the file, a file
\* that is not there is no error, a file that cannot be read is
Load(env) ==
    IF env.file = "malformed"
    THEN [cfg |-> DefaultConfig, err |-> Errorf("error reading config file")]
    ELSE [cfg |-> [Token |-> IF env.envToken # "" THEN env.envToken
                             ELSE IF env.file = "ok" THEN env.fileToken
                             ELSE DefaultConfig.Token,
                   APIURL |-> IF env.file = "ok" /\ env.fileURL # "" THEN env.fileURL
                              ELSE DefaultConfig.APIURL],
          err |-> Nil]

\* config.GetToken: [token, err]
GetToken(env) ==
    IF Load(env).err # Nil THEN [token |-> "", err |-> Load(env).err]
    ELSE IF Load(env).cfg.Token = ""
    THEN [token |-> "", err |-> Errorf("not authenticated. Run 'spreaker login' first")]
    ELSE [token |-> Load(env).cfg.Token, err |-> Nil]

\* getClient preferring the configured token to the flag
getClient_config(flag, env) ==
    IF GetToken(env).err = Nil
    THEN [client |-> <<NewClientWithOptions(GetToken(env).token, Load(env).cfg.APIURL, 0)>>,
          err |-> Nil, trace |-> <<"GetToken", "Load">>]
    ELSE IF flag # ""
    THEN [client |-> <<NewClientWithOptions(flag, Load(env).cfg.APIURL, 0)>>,
          err |-> Nil, trace |-> <<"GetToken", "Load">>]
    ELSE [client |-> <<>>, err |-> GetToken(env).err, trace |-> <<"GetToken">>]

\* getClient: [client, err, trace]; client is <<>> for nil, flag the value
\* of --token, trace the calls into the config package
getClient(flag, env) ==
    IF flag # ""
    THEN [client |-> <<NewClientWithOptions(flag, Load(env).cfg.APIURL, 0)>>,
          err |-> Nil, trace |-> <<"Load">>]
    ELSE IF GetToken(env).err # Nil
    THEN [client |-> <<>>, err |-> GetToken(env).err, trace |-> <<"GetToken">>]
    ELSE [client |-> <<NewClientWithOptions(GetToken(env).token, Load(env).cfg.APIURL, 0)>>,
          err |-> Nil, trace |-> <<"GetToken", "Load">>]

RECURSIVE SkipSpace(_)
\* a line without its leading spaces
SkipSpace(line) ==
    IF line # <<>> /\ Head(line) = " " THEN SkipSpace(Tail(line)) ELSE line

RECURSIVE Word(_)
\* the characters of a line up to its first space, as text
Word(line) ==
    IF line = <<>> \/ Head(line) = " " THEN "" ELSE Head(line) \o Word(Tail(line))

\* fmt.Scanln(&confirm) on a line of input, given as its characters without
\* the newline: the first space-separated word is stored, whatever follows it
Scanln(line) == Word(SkipSpace(line))

\* confirmAction
confirmAction(line) == Scanln(line) = "y" \/ Scanln(line) = "Y"

\* a command that ended before it had a Client; config is the calls made
\* into the config package
Stopped(printed, e, prompted, config) ==
    [pc |-> "ran", printed |-> printed, err |-> e, prompted |-> prompted,
     config |-> config, client |-> <<>>, req |-> <<>>, trace |-> <<>>]

\* a command that called the API on the Client gc.client and got out
Ran(gc, out, success, prompted) ==
    [pc |-> "ran", printed |-> IF out.err = Nil THEN success ELSE "", err |-> out.err,
     prompted |-> prompted, config |-> gc.trace, client |-> gc.client,
     req |-> out.req, trace |-> out.trace]

\* the tail of both delete commands: the client, then the delete call
DeleteWith(gc, wrapper, x, success, prompted) ==
    IF gc.err # Nil THEN Stopped("", gc.err, prompted, gc.trace)
    ELSE Ran(gc, IF wrapper = "DeleteShow" THEN DeleteShow(gc.client[1], 123, x)
                 ELSE DeleteEpisode(gc.client[1], 456, x),
             success, prompted)

\* runShowsDelete; line is what the user types at the prompt
runShowsDelete(force, line, flag, env, x) ==
    IF ~force /\ ~confirmAction(line) THEN Stopped("Cancelled.", Nil, TRUE, <<>>)
    ELSE DeleteWith(getClient(flag, env), "DeleteShow", x, "Show 123 deleted", ~force)

\* runEpisodesDelete
runEpisodesDelete(force, line, flag, env, x) ==
    IF ~force /\ ~confirmAction(line) THEN Stopped("Cancelled.", Nil, TRUE, <<>>)
    ELSE DeleteWith(getClient(flag, env), "DeleteEpisode", x, "Episode 456 deleted", ~force)

\* the lines a user may type at the prompt, without the newline
Answers == SeqsUpTo({"y", "n", " "}, MaxAnswer) \cup {<<"Y">>, <<"Y", "n">>}

\* the first of the environments, for a command that reads none
NoEnvironment == [file |-> "missing", fileToken |-> "", fileURL |-> "", envToken |-> ""]

\* what the server may answer to a delete
DeleteExchanges ==
    {DoFails, Response(200, JObj(<<KV("response", JObj(<<>>))>>)), Response(204, NoBytes),
     Response(404, JObj(<<KV("response", ErrorPayload(7, <<"show not found">>))>>))}

\* the inputs of a command, as a record on top of what the command leaves
Command(cmd, force, line, flag, env, x, ran) ==
    ran @@ [cmd |-> cmd, force |-> force, line |-> line, flag |-> flag, env |-> env,
            x |-> IF \E i \in 1..Len(ran.trace) : ran.trace[i] = "HTTPClient.Do"
                  THEN x ELSE NoExchange]

RunShowsDelete ==
    /\ call = NoCall /\ dl = DLIdle /\ cli = CLIIdle
    /\ \E force \in BOOLEAN, line \in Answers, flag \in {"", "flagtok"},
          env \in Environments, x \in DeleteExchanges :
        \* nothing is read at the prompt when --force is given
        /\ force => line = <<>>
        \* nor the token and the configuration when the command is cancelled
        /\ ~force /\ ~confirmAction(line) => flag = "" /\ env = NoEnvironment
        /\ cli' = Command("shows delete", force, line, flag, env, x,
                          runShowsDelete(force, line, flag, env, x))
        /\ UNCHANGED <<client, call, dl>>

RunEpisodesDelete ==
    /\ call = NoCall /\ dl = DLIdle /\ cli = CLIIdle
    /\ \E force \in BOOLEAN, line \in Answers, flag \in {"", "flagtok"},
          env \in Environments, x \in DeleteExchanges :
        /\ force => line = <<>>
        \* nor the token and the configuration when the command is cancelled
        /\ ~force /\ ~confirmAction(line) => flag = "" /\ env = NoEnvironment
        /\ cli' = Command("episodes delete", force, line, flag, env, x,
                          runEpisodesDelete(force, line, flag, env, x))
        /\ UNCHANGED <<client, call, dl>>

(***************************************************************************)
(* The update commands.  A flag is [changed, value]: whether the user gave *)
(* it on the command line, and what Get<Type> returns for it, which is the *)
(* default of the flag when it was not given.                              *)
(***************************************************************************)
NotGiven(default) == [changed |-> FALSE, value |-> default]
Given(v) == [changed |-> TRUE, value |-> v]

\* "if cmd.Flags().Changed(name) { val, _ := cmd.Flags().Get...(name); p = &val }"
IfChanged(f) == IF f.changed THEN <<f.value>> ELSE <<>>

\* the api.UpdateShowParams runShowsUpdate builds from the flags
ShowsUpdateParams(flags) ==
    [Title |-> IfChanged(flags.title), Description |-> IfChanged(flags.description),
     Language |-> IfChanged(flags.language), CategoryID |-> IfChanged(flags.category),
     Explicit |-> IfChanged(flags.explicit)]

\* the api.UpdateEpisodeParams runEpisodesUpdate builds from the flags
EpisodesUpdateParams(flags) ==
    [Title |-> IfChanged(flags.title), Description |-> IfChanged(flags.description),
     Tags |-> IfChanged(flags.tags), Explicit |-> IfChanged(flags.explicit),
     DownloadEnabled |-> IfChanged(flags.downloadable), Hidden |-> IfChanged(flags.hidden),
     ShowID |-> <<>>, AutoPublishedAt |-> <<>>]

\* the tail of both update commands: the error of getClient, or the update
\* on the Client it made
UpdateWith(gc, wrapper, params, x, success) ==
    IF gc.err # Nil THEN Stopped("", gc.err, FALSE, gc.trace)
    ELSE Ran(gc, IF wrapper = "UpdateShow" THEN UpdateShow(gc.client[1], 123, params, x)
                 ELSE UpdateEpisode(gc.client[1], 456, params, x),
             success, FALSE)

\* runShowsUpdate
runShowsUpdate(flags, flag, env, x) ==
    UpdateWith(getClient(flag, env), "UpdateShow", ShowsUpdateParams(flags), x, "Show updated")

\* runEpisodesUpdate
runEpisodesUpdate(flags, flag, env, x) ==
    UpdateWith(getClient(flag, env), "UpdateEpisode", EpisodesUpdateParams(flags), x,
               "Episode updated")

\* the flags of "shows update" as the user may give them
ShowsUpdateFlags ==
    [title : {NotGiven(""), Given(""), Given("New")},
     description : {NotGiven(""), Given("")},
     language : {NotGiven(""), Given("it")},
     category : {NotGiven(0), Given(0), Given(7)},
     explicit : {NotGiven(FALSE), Given(FALSE), Given(TRUE)}]

\* the flags of "episodes update"
EpisodesUpdateFlags ==
    [title : {NotGiven(""), Given("")},
     description : {NotGiven(""), Given("d")},
     tags : {NotGiven(<<>>), Given(<<>>), Given(<<"a", "b">>)},
     explicit : {NotGiven(FALSE), Given(FALSE)},
     downloadable : {NotGiven(FALSE), Given(TRUE), Given(FALSE)},
     hidden : {NotGiven(FALSE), Given(TRUE)}]

\* the inputs of an update command, as a record on top of what it leaves
Updated(cmd, flags, params, flag, env, x, ran) ==
    ran @@ [cmd |-> cmd, flags |-> flags, params |-> params, flag |-> flag, env |-> env,
            x |-> IF \E i \in 1..Len(ran.trace) : ran.trace[i] = "HTTPClient.Do"
                  THEN x ELSE NoExchange]

RunShowsUpdate ==
    /\ call = NoCall /\ dl = DLIdle /\ cli = CLIIdle
    /\ \E flags \in ShowsUpdateFlags, flag \in {"", "flagtok"}, x \in UpdateExchanges :
        /\ cli' = Updated("shows update", flags, ShowsUpdateParams(flags), flag, NoEnvironment, x,
                          runShowsUpdate(flags, flag, NoEnvironment, x))
        /\ UNCHANGED <<client, call, dl>>

RunEpisodesUpdate ==
    /\ call = NoCall /\ dl = DLIdle /\ cli = CLIIdle
    /\ \E flags \in EpisodesUpdateFlags, flag \in {"", "flagtok"}, x \in UpdateExchanges :
        /\ cli' = Updated("episodes update", flags, EpisodesUpdateParams(flags), flag,
                          NoEnvironment, x,
                          runEpisodesUpdate(flags, flag, NoEnvironment, x))
        /\ UNCHANGED <<client, call, dl>>

(***************************************************************************)
(* login: read a token, try it with GetMe, save it.                        *)
(***************************************************************************)
\* the error of fmt.Scanln(&token): no word on the line ("unexpected
\* newline") or more text after the word ("expected newline")
ScanlnFails(line) ==
    \/ Scanln(line) = ""
    \/ \E i \in 1..Len(line) : \E j \in (i + 1)..Len(line) :
          line[i] # " " /\ line[j - 1] = " " /\ line[j] # " "

\* config.Save: the file as it is after the call; how is "ok", "mkdir"
\* (the directory cannot be made) or "open" (the file cannot be written)
Save(cfg, env, how) ==
    IF how = "ok"
    THEN [env |-> [env EXCEPT !.file = "ok", !.fileToken = cfg.Token, !.fileURL = cfg.APIURL],
          err |-> Nil]
    ELSE [env |-> env,
          err |-> Errorf(IF how = "mkdir" THEN "could not create config directory"
                         ELSE "could not write config file")]

\* config.SaveToken: [env, err]
SaveToken(token, env, how) ==
    IF Load(env).err # Nil THEN [env |-> env, err |-> Load(env).err]
    ELSE Save([Load(env).cfg EXCEPT !.Token = token], env, how)

\* GetMe was not called
NoGetMe == [err |-> Nil, result |-> NoResult, trace |-> <<>>, req |-> <<>>]

\* what login leaves: the steps it took, its error, the configuration
LoggedIn(steps, e, env, token, me) ==
    [pc |-> "ran", steps |-> steps, err |-> e, stored |-> env, token |-> token,
     me |-> me.err, trace |-> me.trace, req |-> me.req,
     printed |-> IF e = Nil THEN "Logged in" ELSE "",
     client |-> IF me # NoGetMe THEN <<NewClient(token)>> ELSE <<>>]

\* runLogin saving the token before it tries it
runLogin_eager(line, env, me, saved) ==
    IF ScanlnFails(line)
    THEN LoggedIn(<<"Scanln">>, Errorf("failed to read token"), env, Scanln(line), NoGetMe)
    ELSE IF Scanln(line) = ""
    THEN LoggedIn(<<"Scanln">>, Errorf("token cannot be empty"), env, "", NoGetMe)
    ELSE IF saved.err # Nil
    THEN LoggedIn(<<"Scanln", "SaveToken">>, Errorf("failed to save token"), saved.env,
                  Scanln(line), NoGetMe)
    ELSE IF me.err # Nil
    THEN LoggedIn(<<"Scanln", "SaveToken", "GetMe">>, Errorf("invalid token"), saved.env,
                  Scanln(line), me)
    ELSE LoggedIn(<<"Scanln", "SaveToken", "GetMe">>, Nil, saved.env, Scanln(line), me)

\* runLogin; me is what client.GetMe() returns on NewClient(token), saved
\* what config.SaveToken(token) returns
runLogin(line, env, me, saved) ==
    IF ScanlnFails(line)
    THEN LoggedIn(<<"Scanln">>, Errorf("failed to read token"), env, Scanln(line), NoGetMe)
    ELSE IF Scanln(line) = ""
    THEN LoggedIn(<<"Scanln">>, Errorf("token cannot be empty"), env, "", NoGetMe)
    ELSE IF me.err # Nil
    THEN LoggedIn(<<"Scanln", "GetMe">>, Errorf("invalid token"), env, Scanln(line), me)
    ELSE IF saved.err # Nil
    THEN LoggedIn(<<"Scanln", "GetMe", "SaveToken">>, Errorf("failed to save token"),
                  saved.env, Scanln(line), me)
    ELSE LoggedIn(<<"Scanln", "GetMe", "SaveToken">>, Nil, saved.env, Scanln(line), me)

\* the lines a user may type when asked for the token
TokenLines == SeqsUpTo({"t", " "}, MaxAnswer)

\* what the server may answer to GET /me
LoginExchanges ==
    {DoFails, Response(200, NotJSON),
     Response(401, JObj(<<KV("response", ErrorPayload(7, <<"try later">>))>>)),
     Response(200, JObj(<<KV("response", JObj(<<>>))>>)),
     Response(200, JObj(<<KV("response",
                             JObj(<<KV("user", JObj(<<KV("user_id", JNum(7)),
                                                      KV("fullname", JStr("Foo"))>>))>>))>>))}

\* the ways config.Save may end
SaveOutcomes == {"ok", "mkdir", "open"}

RunLogin ==
    /\ call = NoCall /\ dl = DLIdle /\ cli = CLIIdle
    /\ \E line \in TokenLines, env \in Environments, x \in LoginExchanges,
          how \in SaveOutcomes :
        \E me \in {GetMe(NewClient(Scanln(line)), x)} :
            \* what login does not get to is not drawn
            /\ ScanlnFails(line) => x = DoFails
            /\ (ScanlnFails(line) \/ me.err # Nil) => how = "ok"
            /\ cli' = runLogin(line, env, me, SaveToken(Scanln(line), env, how))
                      @@ [cmd |-> "login", line |-> line, env |-> env, how |-> how,
                          x |-> IF ScanlnFails(line) THEN NoExchange ELSE x]
            /\ UNCHANGED <<client, call, dl>>

\* the caller has looked at the outcome; the client is free for the next call
Return ==
    /\ call # NoCall
    /\ call' = NoCall
    /\ UNCHANGED <<client, dl, cli>>

Next ==
    \/ CallGet
    \/ CallPost
    \/ CallPostForm
    \/ CallPostFormWithFile
    \/ CallPut
    \/ CallDelete
    \/ CallGetPaginated
    \/ CallUploadEpisode
    \/ CallGetMe
    \/ CallCreateShow
    \/ CallDeleteShow
    \/ CallDeleteEpisode
    \/ CallCreateMessage
    \/ CallUpdateShow
    \/ CallUpdateEpisode
    \/ CallCheckUserLikesEpisode
    \/ CallGetEpisodeDownloadURL
    \/ Return
    \/ DLStart
    \/ DLNextPage
    \/ DLCollected
    \/ DLBegin
    \/ DLEpisode
    \/ DLFinish
    \/ RunShowsDelete
    \/ RunEpisodesDelete
    \/ RunShowsUpdate
    \/ RunEpisodesUpdate
    \/ RunLogin

Spec == Init /\ [][Next]_vars

(***************************************************************************)
(* Properties.                                                             *)
(***************************************************************************)
\* the last call received a status and a whole body
Answered == call # NoCall /\ call.x.outcome = "ok"

\* the last step the call took
LastStep == call.trace[Len(call.trace)]

\* the member of object b stored under name k, NoBytes when b has none
Member(b, k) ==
    IF b.t = "obj" /\ \E i \in 1..Len(b.o) : b.o[i].k = k
    THEN b.o[CHOOSE i \in 1..Len(b.o) : b.o[i].k = k /\ \A j \in (i + 1)..Len(b.o) : b.o[j].k # k].v
    ELSE NoBytes

\* the body spells {"response": {"error": {"code": <int>, "messages": [<string>...]}}}
HasErrorObject(b) ==
    LET e == Member(Member(b, "response"), "error")
    IN  /\ Member(e, "code").t = "num"
        /\ Member(e, "messages").t = "arr"
        /\ \A i \in 1..Len(Member(e, "messages").a) : Member(e, "messages").a[i].t = "str"

\* C1: a response with status >= 400 always gives an APIError carrying the
\* HTTP status, with Code 0 and no Messages when the body holds no parseable
\* error object (not JSON, empty, JSON of another shape); the error envelope
\* is parsed only for a status >= 400.
C1_ErrorStatusGivesAPIError ==
    /\ (Answered /\ call.x.status >= 400) =>
          /\ call.err.type = "APIError"
          /\ call.err.StatusCode = call.x.status
          /\ ~HasErrorObject(call.x.body) => (call.err.Code = 0 /\ call.err.Messages = <<>>)
    /\ (call # NoCall /\ \E i \in 1..Len(call.trace) : call.trace[i] = "parseErrorResponse") =>
          (Answered /\ call.x.status >= 400)

C1_Witness ==
    /\ Answered /\ call.op = "Delete"
    /\ call.x.status = 500 /\ call.x.body = NotJSON
    /\ call.err = APIError(500, 0, <<>>)

\* C2: for the statuses 401, 404, 429 and 500 each predicate of the APIError
\* is true for its own status only, none is true for 500, and for any error
\* status at most one predicate is true.
C2_PredicatesMatchStatus ==
    (Answered /\ call.x.status >= 400) =>
        /\ call.x.status \in {401, 404, 429, 500} =>
              /\ IsUnauthorized(call.err) <=> call.x.status = 401
              /\ IsNotFound(call.err) <=> call.x.status = 404
              /\ IsRateLimited(call.err) <=> call.x.status = 429
        /\ Cardinality({p \in {"unauthorized", "notfound", "ratelimited"} :
                           \/ p = "unauthorized" /\ IsUnauthorized(call.err)
                           \/ p = "notfound" /\ IsNotFound(call.err)
                           \/ p = "ratelimited" /\ IsRateLimited(call.err)}) <= 1

C2_Witness ==
    /\ Answered /\ call.x.status = 429
    /\ IsRateLimited(call.err) /\ ~IsNotFound(call.err) /\ ~IsUnauthorized(call.err)

\* C3: a status >= 400 with the body {"response":{"error":{"code":c,
\* "messages":[m1..mn]}}} gives an APIError with that status, Code c and
\* Messages m1..mn in the same order; 404 with code 7 is IsNotFound.
C3_ErrorBodyDecoded ==
    (Answered /\ call.x.status >= 400) =>
        \A c \in {0, 7}, ms \in SeqsUpTo({"show not found", "try later"}, MaxMsgs) :
            call.x.body = JObj(<<KV("response", ErrorPayload(c, ms))>>) =>
                /\ call.err = APIError(call.x.status, c, ms)
                /\ call.x.status = 404 => IsNotFound(call.err)

C3_Witness ==
    /\ Answered /\ call.op = "Get" /\ call.x.status = 404
    /\ call.x.body = JObj(<<KV("response", ErrorPayload(7, <<"show not found", "try later">>))>>)
    /\ call.err.Code = 7 /\ call.err.Messages = <<"show not found", "try later">>
    /\ IsNotFound(call.err)

\* the six verb helpers (UploadEpisode goes through PostFormWithFile)
VerbOps == {"Get", "Post", "PostForm", "PostFormWithFile", "Put", "Delete"}

\* the call took the named step
Took(step) == \E i \in 1..Len(call.trace) : call.trace[i] = step

\* json.Unmarshal into apiResponse accepts an object and null, nothing else
NotAWrapper(b) == b.t \notin {"obj", "null"}

C5_TransportFailureSurfaces ==
    (call # NoCall /\ call.x.outcome \in {"doerr", "readerr"}) =>
        /\ call.err # Nil
        /\ call.err.type # "APIError"
        /\ ErrorKind(call.err) = "transport"
        /\ call.page = NilPage
        /\ call.result \in {NoResult, ResultOf(Zero(ShowResponse)), ResultOf(Zero(EpisodeResponse))}

C5_Witness ==
    /\ call # NoCall /\ call.op = "GetPaginated"
    /\ call.x = ReadFails(500)
    /\ call.err = Errorf("failed to read response")

\* C6: a failed call reports the kind of the first layer that fails and of
\* no other: the exchange (transport), the status (APIError), the outer
\* wrapper (malformed envelope), the inner payload (payload decode).  With a
\* status below 400 a body that is no wrapper gives the envelope kind only,
\* and a body whose wrapper parses gives the payload kind only.
C6_OneKindPerFailure ==
    (call # NoCall /\ call.err # Nil /\ Took("HTTPClient.Do")) =>
        /\ ErrorKind(call.err) = "transport" <=> LastStep \in {"HTTPClient.Do", "io.ReadAll"}
        /\ ErrorKind(call.err) = "api" <=> LastStep = "parseErrorResponse"
        /\ ErrorKind(call.err) = "envelope" <=> LastStep = "Unmarshal(apiResponse)"
        /\ ErrorKind(call.err) = "payload" <=>
              LastStep \in {"Unmarshal(result)", "Unmarshal(paginatedResponse)", "Unmarshal(items)"}
        /\ (Answered /\ call.x.status < 400) =>
              /\ NotAWrapper(call.x.body) => ErrorKind(call.err) = "envelope"
              /\ ~NotAWrapper(call.x.body) => ErrorKind(call.err) = "payload"

C6_Witness ==
    /\ Answered /\ call.op = "GetPaginated" /\ call.x.status = 200
    /\ call.x.body = JObj(<<KV("response", PagePayload(JArr(<<EpisodeJSON(1)>>), JNum(2)))>>)
    /\ call.err = Errorf("failed to parse paginated response")

\* the last call is a GetPaginated that succeeded
PageReturned == Answered /\ call.op = "GetPaginated" /\ call.err = Nil

\* C7: after a successful GetPaginated, HasMore is true exactly when
\* next_url of the response is a non-empty string, NextURL is that next_url
\* unchanged, and Items are the elements of items in their order; empty items
\* with an empty next_url is a valid page with no items and HasMore false.
C7_PageMatchesResponse ==
    /\ PageReturned =>
          LET payload == Member(call.x.body, "response")
              next == Member(payload, "next_url")
              items == Member(payload, "items")
          IN  /\ ~call.page.nil
              /\ call.page.HasMore <=> (next.t = "str" /\ next.s # "")
              /\ next.t = "str" => call.page.NextURL = next.s
              /\ items.t = "arr" =>
                    /\ Len(call.page.Items) = Len(items.a)
                    /\ \A i \in 1..Len(items.a) :
                          call.page.Items[i].EpisodeID = Member(items.a[i], "episode_id").n
    /\ (Answered /\ call.op = "GetPaginated" /\ call.x.status < 400
        /\ call.x.body = JObj(<<KV("response", PagePayload(JArr(<<>>), JStr("")))>>)) =>
          (call.err = Nil /\ call.page = PaginatedResult(<<>>, ""))

C7_Witness ==
    /\ PageReturned
    /\ call.x.body = JObj(<<KV("response",
                               PagePayload(JArr(<<EpisodeJSON(2), EpisodeJSON(1)>>), JStr(NextPageURL)))>>)
    /\ call.page.HasMore /\ call.page.NextURL = NextPageURL
    /\ call.page.Items = <<[EpisodeID |-> 2, Title |-> "ep"], [EpisodeID |-> 1, Title |-> "ep"]>>

\* download-all has left its collecting loop, one way or another, without a
\* failed request
DLLoopOver == dl.pc \in {"collected", "done", "panic", "downloading", "finished"}

\* C8: against a server whose page k is the first with an empty next_url,
\* GetPaginated reports HasMore false on page k, never on an earlier one,
\* and the loop of download-all with limit 0 ends after exactly k page
\* requests.
C8_LoopEndsAfterKPages ==
    /\ (dl.pc = "loop" /\ dl.requests >= 1) =>
          (dl.result.HasMore <=> dl.requests < Len(dl.script))
    /\ (DLLoopOver /\ dl.limit = 0) => dl.requests = Len(dl.script)

\* C9: whenever GetPaginated returns an error, the page it returns is nil:
\* no items, no cursor and no has-more come with the error.
C9_NoPageWithError ==
    /\ (call # NoCall /\ call.op = "GetPaginated" /\ call.err # Nil) => call.page = NilPage
    /\ (dl.pc = "failed" /\ dl.requests >= 1) => dl.result = NilPage

C9_Witness ==
    /\ Answered /\ call.op = "GetPaginated" /\ call.x.status = 200
    /\ call.x.body = JObj(<<KV("response",
                               PagePayload(JArr(<<EpisodeJSON(1), JStr("ep")>>), JStr(NextPageURL)))>>)
    /\ call.err = Errorf("failed to parse items")
    /\ call.page = NilPage

\* C10: PostFormWithFile given a path that cannot be opened returns the
\* local file error, which is no APIError, having opened the file first and
\* built or sent no request; UploadEpisode, once it reaches PostFormWithFile,
\* does the same, and it never sends anything for such a path.
C10_UnopenableFileIsLocal ==
    (call # NoCall /\ call.file \in {"missing", "denied"}) =>
        /\ call.op \in {"PostFormWithFile", "UploadEpisode", "UploadEpisode(no title)",
                        "UploadEpisode(no media_file)"}
        /\ call.err # Nil /\ call.err.type # "APIError"
        /\ call.req = <<>> /\ call.x = NoExchange
        /\ ~Took("newRequest") /\ ~Took("HTTPClient.Do")
        /\ (call.op = "PostFormWithFile" \/ (call.op = "UploadEpisode" /\ client.Token # "")) =>
              /\ call.err = Errorf("failed to open file")
              /\ call.trace = <<"os.Open">>

C10_Witness ==
    /\ call # NoCall /\ call.op = "UploadEpisode" /\ call.file = "missing"
    /\ client.Token # "" /\ client.BaseURL = BadBaseURL
    /\ call.err = Errorf("failed to open file")
    /\ call.req = <<>>

\* the wrappers that test the token before anything else
AuthOps == {"GetMe", "CreateShow", "DeleteShow", "DeleteEpisode", "CreateMessage",
            "UpdateShow", "UpdateEpisode", "UploadEpisode", "UploadEpisode(no title)", "UploadEpisode(no media_file)"}

\* C11: a wrapper that requires authentication, called on a client whose
\* token is empty, returns an error that is neither an APIError nor a
\* transport error, and neither builds nor sends a request.
C11_NoTokenNoRequest ==
    (call # NoCall /\ call.op \in AuthOps /\ client.Token = "") =>
        /\ call.err # Nil
        /\ call.err.type = "errorString"
        /\ ErrorKind(call.err) = "local"
        /\ call.req = <<>> /\ call.x = NoExchange
        /\ ~Took("newRequest") /\ ~Took("HTTPClient.Do")
        /\ call.result = NoResult \/ call.result = ResultOf(Zero(EpisodeResponse))

C11_Witness ==
    /\ call # NoCall /\ call.op = "DeleteShow" /\ client.Token = ""
    /\ call.err = Errorf("authentication required")
    /\ call.trace = <<>>

\* the verb helpers and GetPaginated
CoreOps == VerbOps \cup {"GetPaginated"}

\* how often the call took the named step
Times(step) == Cardinality({i \in 1..Len(call.trace) : call.trace[i] = step})

\* C12: a call of a verb helper or of GetPaginated builds at most one
\* request and performs at most one HTTP exchange, whatever the outcome; a
\* failed exchange or a status >= 400 ends the call at that step with the
\* error, and nothing is tried again.
C12_AtMostOneExchange ==
    (call # NoCall /\ call.op \in CoreOps) =>
        /\ Times("newRequest") <= 1 /\ Times("HTTPClient.Do") <= 1 /\ Times("io.ReadAll") <= 1
        /\ Len(call.req) <= 1
        /\ call.x.outcome = "doerr" => (call.err # Nil /\ LastStep = "HTTPClient.Do")
        /\ call.x.outcome = "readerr" => (call.err # Nil /\ LastStep = "io.ReadAll")
        /\ (Answered /\ call.x.status >= 400) => (call.err # Nil /\ LastStep = "parseErrorResponse")
        /\ (call.err # Nil /\ call.op # "GetPaginated") =>
              call.result \in {NoResult, ResultOf(Zero(ShowResponse)),
                               ResultOf(Unmarshal(Member(call.x.body, "response"), ShowResponse,
                                                  Zero(ShowResponse)).v)}

C12_Witness ==
    /\ call # NoCall /\ call.op = "Post" /\ call.x = DoFails
    /\ call.trace = <<"newRequest", "HTTPClient.Do">>
    /\ call.err = Errorf("request failed")

\* the operations that build a request whatever the token
OpenOps == CoreOps \cup {"GetEpisodeDownloadURL"}

\* C13: every request built carries User-Agent and Accept: application/json,
\* and Authorization: "Bearer <token>" exactly when the token of the client
\* is not empty; with an empty token the verb helpers, GetPaginated and
\* GetEpisodeDownloadURL still build and send the request, without an
\* Authorization header.
C13_CommonHeaders ==
    /\ (call # NoCall /\ call.req # <<>>) =>
          /\ call.req[1].UserAgent = <<client.UserAgent>>
          /\ call.req[1].Accept = <<"application/json">>
          /\ client.Token # "" => call.req[1].Authorization = <<"Bearer " \o client.Token>>
          /\ client.Token = "" => call.req[1].Authorization = <<>>
    /\ (call # NoCall /\ call.op \in OpenOps /\ client.Token = ""
        /\ client.BaseURL # BadBaseURL /\ call.file \in {"none", "ok"}) =>
          /\ Len(call.req) = 1
          /\ Took("HTTPClient.Do") \/ Took("noRedirectClient.Do")

C13_Witness ==
    /\ call # NoCall /\ call.op = "GetEpisodeDownloadURL" /\ client.Token = ""
    /\ Took("noRedirectClient.Do")
    /\ call.req[1].Authorization = <<>>
    /\ call.req[1].UserAgent = <<"spreaker-cli/1.0">>

\* C14: the URL of a request is base URL, "/", API version and path put
\* together with nothing normalised (the default base and /shows/123 give
\* https://api.spreaker.com/v2/shows/123, a base that ends in "/" keeps its
\* slash); Get and GetPaginated append "?" and the encoded query exactly
\* when the params map is not empty, and the other verbs append nothing.
C14_URLIsConcatenation ==
    (call # NoCall /\ call.op \in CoreOps /\ call.req # <<>>) =>
        LET path == IF call.op = "GetPaginated" THEN "/shows/123/episodes" ELSE "/shows/123"
        IN  /\ call.req[1].url = client.BaseURL \o "/" \o client.APIVersion \o path
            /\ (client.BaseURL = DefaultBaseURL /\ call.op = "Get") =>
                  call.req[1].url = "https://api.spreaker.com/v2/shows/123"
            /\ (client.BaseURL = "http://localhost:8080/" /\ call.op = "Get") =>
                  call.req[1].url = "http://localhost:8080//v2/shows/123"
            /\ call.op \in {"Get", "GetPaginated"} =>
                  /\ call.params = <<>> <=> call.req[1].query = <<>>
                  /\ call.params # <<>> =>
                        /\ Head(call.req[1].query) = "?"
                        /\ Len(call.req[1].query) = Len(call.params) + 1
                        /\ \A i \in 1..Len(call.params) :
                              /\ call.req[1].query[i + 1][1] = call.params[i][1]
                              /\ call.params[i][2] = "a b" => call.req[1].query[i + 1][2] = "a+b"
                              /\ call.params[i][2] = "2" => call.req[1].query[i + 1][2] = "2"
            /\ call.op \notin {"Get", "GetPaginated"} => call.req[1].query = <<>>

C14_Witness ==
    /\ call # NoCall /\ call.op = "Get" /\ client.BaseURL = DefaultBaseURL
    /\ call.params = <<<<"limit", "2">>, <<"q", "a b">>>>
    /\ call.req[1].url = "https://api.spreaker.com/v2/shows/123"
    /\ call.req[1].query = <<"?", <<"limit", "2">>, <<"q", "a+b">>>>

\* the body is {"response": V} and nothing else
OnlyResponse(b) == b.t = "obj" /\ Len(b.o) = 1 /\ b.o[1].k = "response"

\* C15: a verb call with a result pointer that gets a status below 400 and
\* the body {"response": V} unwraps it to V itself, whatever value V is,
\* and decodes V into the result; members of the body beside "response"
\* do not reach the result.
C15_PayloadPassedThrough ==
    (Answered /\ call.op \in VerbOps /\ call.wantResult /\ call.x.status < 400
     /\ Member(call.x.body, "response") # NoBytes) =>
        LET V == Member(call.x.body, "response")
            inner == Unmarshal(V, ShowResponse, Zero(ShowResponse))
        IN  /\ OnlyResponse(call.x.body) =>
                  Unmarshal(call.x.body, apiResponse, Zero(apiResponse))
                      = [err |-> FALSE, v |-> [Response |-> V]]
            /\ Took("Unmarshal(result)")
            /\ call.result = ResultOf(inner.v)
            /\ call.err = IF inner.err THEN Errorf("failed to parse response data") ELSE Nil

C15_Witness ==
    /\ Answered /\ call.op = "Post" /\ call.wantResult /\ call.x.status = 200
    /\ call.x.body = JObj(<<KV("response",
                               JObj(<<KV("extra", JNum(1)),
                                      KV("show", JObj(<<KV("title", JStr("Foo")),
                                                        KV("show_id", JNum(123))>>))>>))>>)
    /\ call.err = Nil
    /\ call.result = ResultOf([Show |-> [ShowID |-> 123, Title |-> "Foo"]])

\* the operations that send no body, a JSON body, a multipart body
NoBodyOps == {"Get", "Put", "Delete", "GetPaginated", "GetMe", "DeleteShow", "DeleteEpisode",
              "GetEpisodeDownloadURL", "CheckUserLikesEpisode"}
JSONOps == {"Post", "CreateMessage"}
FormOps == {"PostForm", "CreateShow", "UpdateShow", "UpdateEpisode"}
FileOps == {"PostFormWithFile", "UploadEpisode"}

\* C16: a request has one body kind at most.  Get, Put and Delete send no
\* body and no Content-Type; Post sends a JSON body with Content-Type
\* application/json when its body is not nil and nothing when it is nil;
\* PostForm and PostFormWithFile send a multipart body with Content-Type
\* multipart/form-data and a boundary; a JSON body never comes with form
\* fields or a file.
C16_OneBodyKind ==
    (call # NoCall /\ call.req # <<>>) =>
        LET r == call.req[1]
        IN  /\ call.op \in NoBodyOps \cup JSONOps \cup FormOps \cup FileOps
            /\ r.body \in {"none", "json", "multipart", "multipart+file"}
            /\ call.op \in NoBodyOps => (r.body = "none" /\ r.ContentType = <<>>)
            /\ call.op \in JSONOps => r.body \in {"none", "json"}
            /\ call.op = "Post" => (r.body = "json" <=> call.body # "nil")
            /\ call.op \in FormOps => r.body = "multipart"
            /\ call.op \in FileOps => r.body = "multipart+file"
            /\ r.body = "none" => r.ContentType = <<>>
            /\ r.body = "json" => r.ContentType = <<"application/json">>
            /\ r.body \in {"multipart", "multipart+file"} =>
                  r.ContentType = <<"multipart/form-data; boundary=">>

C16_Witness ==
    /\ call # NoCall /\ call.op = "PostForm" /\ call.req # <<>>
    /\ call.req[1].body = "multipart"
    /\ call.req[1].ContentType = <<"multipart/form-data; boundary=">>
    /\ call.req[1].method = "POST"

AskedForClient ==
    /\ cli.pc = "ran" /\ cli.cmd # "login"
    /\ cli.cmd \in {"shows delete", "episodes delete"} => (cli.force \/ cli.config # <<>>)

\* the command sent a request to the server
CommandSent == \E i \in 1..Len(cli.trace) : cli.trace[i] = "HTTPClient.Do"

\* C18: NewClient yields base URL https://api.spreaker.com, API version v2
\* and a timeout of 30 seconds; NewClientWithOptions replaces the base URL
\* only when the given one is non-empty and the timeout only when the given
\* one is greater than 0, and keeps the defaults otherwise; so the Client
\* of getClient, which passes timeout 0, always has 30 seconds.
C18_DefaultsUnlessGiven ==
    /\ \A t \in Tokens :
          client = NewClient(t) =>
             /\ client.BaseURL = "https://api.spreaker.com"
             /\ client.APIVersion = "v2"
             /\ client.Timeout = 30
             /\ client.Token = t
    /\ \A o \in ClientOptions :
          client = NewClientWithOptions(o[1], o[2], o[3]) =>
             /\ client.BaseURL = (IF o[2] # "" THEN o[2] ELSE "https://api.spreaker.com")
             /\ client.Timeout = (IF o[3] > 0 THEN o[3] ELSE 30)
             /\ client.APIVersion = "v2"
             /\ client.Token = o[1]
    /\ (cli.pc = "ran" /\ cli.cmd # "login" /\ cli.client # <<>>) =>
          /\ cli.client[1].Timeout = 30
          /\ cli.client[1].APIVersion = "v2"
          /\ cli.client[1].BaseURL =
                (IF cli.env.file = "ok" /\ cli.env.fileURL # "" THEN cli.env.fileURL
                 ELSE "https://api.spreaker.com")

C18_Witness ==
    /\ client.Timeout = 5 /\ client.BaseURL = "https://api.spreaker.com"
    /\ cli.pc = "ran" /\ cli.cmd = "shows delete" /\ cli.client # <<>>
    /\ cli.client[1].Timeout = 30 /\ cli.client[1].BaseURL = "http://localhost:8080"

\* C19: shows delete and episodes delete send the DELETE request only when
\* --force is given or the answer at the prompt is exactly "y" or "Y"; with
\* any other answer the command prints Cancelled, returns success and sends
\* no request at all.
C19_DeleteOnlyWhenConfirmed ==
    (cli.pc = "ran" /\ cli.cmd \in {"shows delete", "episodes delete"}) =>
       /\ CommandSent => (cli.force \/ cli.line \in {<<"y">>, <<"Y">>})
       /\ (~cli.force /\ cli.line \notin {<<"y">>, <<"Y">>}) =>
             /\ cli.printed = "Cancelled."
             /\ cli.err = Nil
             /\ cli.trace = <<>> /\ cli.req = <<>>

\* the token the configuration yields: SPREAKER_TOKEN before the file, and
\* nothing when the file cannot be read
Configured(env) ==
    IF env.file = "malformed" THEN ""
    ELSE IF env.envToken # "" THEN env.envToken
    ELSE env.fileToken

\* C20: getClient uses the value of --token whenever it is non-empty and
\* consults the configured token (config file or SPREAKER_TOKEN) only when
\* the flag is empty; when neither yields a non-empty token it returns an
\* error, no Client is created and the command sends no request.
C20_FlagBeforeConfiguredToken ==
    AskedForClient =>
       /\ cli.flag # "" =>
             /\ cli.err # Nil => cli.client # <<>>
             /\ cli.client # <<>> /\ cli.client[1].Token = cli.flag
             /\ \A i \in 1..Len(cli.config) : cli.config[i] # "GetToken"
       /\ (cli.flag = "" /\ Configured(cli.env) # "") =>
             /\ cli.client # <<>> /\ cli.client[1].Token = Configured(cli.env)
             /\ \E i \in 1..Len(cli.config) : cli.config[i] = "GetToken"
       /\ (cli.flag = "" /\ Configured(cli.env) = "") =>
             /\ cli.err # Nil /\ cli.err.type # "APIError"
             /\ cli.client = <<>>
             /\ cli.trace = <<>> /\ cli.req = <<>> /\ cli.x = NoExchange

C20_Witness ==
    /\ AskedForClient /\ cli.cmd = "episodes delete"
    /\ cli.flag = "flagtok" /\ cli.env.envToken = "envtok" /\ cli.env.fileToken = "filetok"
    /\ cli.client # <<>> /\ cli.client[1].Token = "flagtok"
    /\ CommandSent /\ cli.err = Nil

\* C22: CreateMessage returns an error without any network call when the
\* token is empty, when the text is empty, or when the text is longer than
\* 4000 characters, the checks being made in that order; a text of 1 to
\* 4000 characters with a non-empty token results in exactly one POST.
C22_MessageChecksThenOnePost ==
    (call # NoCall /\ call.op = "CreateMessage") =>
        /\ client.Token = "" =>
              /\ call.err = Errorf("authentication required: this endpoint requires an OAuth token")
              /\ call.trace = <<>> /\ call.x = NoExchange
        /\ (client.Token # "" /\ call.text.chars = 0) =>
              /\ call.err = Errorf("text is required")
              /\ call.trace = <<>> /\ call.x = NoExchange
        /\ (client.Token # "" /\ call.text.chars > 4000) =>
              /\ call.err = Errorf("text exceeds maximum length of 4000 characters")
              /\ call.trace = <<>> /\ call.x = NoExchange
        /\ (client.Token # "" /\ call.text.chars \in 1..4000) =>
              /\ Times("newRequest") = 1
              /\ call.req # <<>> => (call.req[1].method = "POST" /\ Times("HTTPClient.Do") = 1)

\* C25: CheckUserLikesEpisode returns (true, nil) when the GET succeeds,
\* (false, nil) when the call fails with an APIError whose status is 404,
\* and (false, err) for every other failure: any other status code, a
\* transport failure, an envelope or payload decode failure.
C25_LikedUnlessNotFound ==
    (call # NoCall /\ call.op = "CheckUserLikesEpisode") =>
        /\ call.err = Nil => (call.liked /\ call.returned = Nil)
        /\ (call.err.type = "APIError" /\ call.err.StatusCode = 404) =>
              (~call.liked /\ call.returned = Nil)
        /\ (call.err # Nil /\ ~(call.err.type = "APIError" /\ call.err.StatusCode = 404)) =>
              (~call.liked /\ call.returned = call.err /\ call.returned # Nil)
        /\ (call.x.outcome = "ok" /\ call.x.status >= 400 /\ call.x.status # 404) =>
              (~call.liked /\ call.returned.type = "APIError")
        /\ call.x.outcome \in {"doerr", "readerr"} =>
              (~call.liked /\ ErrorKind(call.returned) = "transport")
        /\ (call.x.outcome = "ok" /\ call.x.status < 400 /\ call.x.body \in {NoBytes, NotJSON}) =>
              (~call.liked /\ ErrorKind(call.returned) = "envelope")
        /\ ErrorKind(call.err) = "payload" => (~call.liked /\ call.returned = call.err)

C25_Witness ==
    /\ call # NoCall /\ call.op = "CheckUserLikesEpisode"
    /\ call.x.outcome = "ok" /\ call.x.status = 404
    /\ call.err.type = "APIError" /\ call.err.Messages = <<"show not found">>
    /\ ~call.liked /\ call.returned = Nil

\* the call of GetEpisodeDownloadURL got the response with this status
GotStatus(lo, hi) ==
    /\ call.rx # NoExchange /\ call.rx.outcome = "ok"
    /\ call.rx.status >= lo /\ call.rx.status <= hi

\* the API URL of the download endpoint on this client
DownloadEndpoint == client.BaseURL \o "/v2/episodes/{episode_id}/download"

\* C30 as stated: GetEpisodeDownloadURL never follows a redirect and maps
\* the single response as follows: status 300-399 with a non-empty Location
\* header returns that Location; 300-399 without Location returns an error;
\* status 200 returns the API download URL itself; every other status
\* returns an error that is not an APIError.
C30_Original ==
    (call # NoCall /\ call.op = "GetEpisodeDownloadURL") =>
        /\ Times("noRedirectClient.Do") <= 1
        /\ (GotStatus(300, 399) /\ call.rx.location # "") =>
              (call.err = Nil /\ call.url = call.rx.location)
        /\ (GotStatus(300, 399) /\ call.rx.location = "") =>
              (call.err # Nil /\ call.url = "")
        /\ GotStatus(200, 200) => (call.err = Nil /\ call.url = DownloadEndpoint)
        /\ (GotStatus(0, 199) \/ GotStatus(201, 299) \/ GotStatus(400, 999)) =>
              (call.err # Nil /\ call.err.type # "APIError" /\ call.url = "")

\* C30, amended: as above, except that on the statuses the HTTP client
\* treats as a redirect (301, 302, 303, 307, 308) a Location that cannot be
\* parsed as a URL makes the call fail with a "request failed" error that
\* is not an APIError, instead of returning that Location.
C30_OneResponseMapped ==
    (call # NoCall /\ call.op = "GetEpisodeDownloadURL") =>
        /\ Times("noRedirectClient.Do") <= 1
        /\ (GotStatus(300, 399) /\ call.rx.location # ""
              /\ ~(call.rx.status \in {301, 302, 303, 307, 308}
                    /\ call.rx.location = BadLocation)) =>
              (call.err = Nil /\ call.url = call.rx.location)
        /\ (GotStatus(300, 399) /\ call.rx.status \in {301, 302, 303, 307, 308}
              /\ call.rx.location = BadLocation) =>
              (call.err = Errorf("request failed") /\ call.url = "")
        /\ (GotStatus(300, 399) /\ call.rx.location = "") =>
              (call.err # Nil /\ call.url = "")
        /\ GotStatus(200, 200) => (call.err = Nil /\ call.url = DownloadEndpoint)
        /\ (GotStatus(0, 199) \/ GotStatus(201, 299) \/ GotStatus(400, 999)) =>
              (call.err # Nil /\ call.err.type # "APIError" /\ call.url = "")

C30_Witness ==
    /\ call # NoCall /\ call.op = "GetEpisodeDownloadURL"
    /\ GotStatus(302, 302) /\ call.rx.location = BadLocation
    /\ call.url = "" /\ call.err = Errorf("request failed")
    /\ Times("noRedirectClient.Do") = 1

\* the keys of the form fields of a request
FormKeys(r) == {f[1] : f \in r.form}

\* the parameter is sent as the form field key with this text, when its
\* pointer is set, and not at all when it is nil
SentIffSet(r, p, key, text) ==
    IF p = <<>> THEN key \notin FormKeys(r)
    ELSE <<key, text>> \in r.form /\ Cardinality({f \in r.form : f[1] = key}) = 1

\* C23: UpdateShow and UpdateEpisode send a form field for a parameter if
\* and only if the pointer of that parameter is non-nil: a pointer to a
\* zero value (empty string, false, 0) is sent with that value, a nil
\* pointer is never sent; and the update commands set a pointer only for
\* the flags the user explicitly changed.
C23_FieldIffPointerSet ==
    /\ (call # NoCall /\ call.op = "UpdateShow" /\ call.req # <<>>) =>
          /\ \A n \in {"Title", "Description", "Language"} :
                SentIffSet(call.req[1], call.params[n],
                           CASE n = "Title" -> "title" [] n = "Description" -> "description"
                             [] n = "Language" -> "language",
                           IF call.params[n] # <<>> THEN call.params[n][1] ELSE "")
          /\ SentIffSet(call.req[1], call.params.CategoryID, "category_id",
                        IF call.params.CategoryID = <<0>> THEN "0" ELSE "7")
          /\ SentIffSet(call.req[1], call.params.Explicit, "explicit",
                        IF call.params.Explicit = <<TRUE>> THEN "true" ELSE "false")
          /\ FormKeys(call.req[1]) \subseteq
                {"title", "description", "language", "category_id", "explicit"}
    /\ (call # NoCall /\ call.op = "UpdateEpisode" /\ call.req # <<>>) =>
          /\ SentIffSet(call.req[1], call.params.Title, "title", "")
          /\ SentIffSet(call.req[1], call.params.Description, "description", "d")
          /\ SentIffSet(call.req[1], call.params.Tags, "tags",
                        IF call.params.Tags = <<<<>>>> THEN "" ELSE "a,b")
          /\ SentIffSet(call.req[1], call.params.Explicit, "explicit", "false")
          /\ SentIffSet(call.req[1], call.params.DownloadEnabled, "download_enabled", "true")
          /\ SentIffSet(call.req[1], call.params.Hidden, "hidden", "false")
          /\ SentIffSet(call.req[1], call.params.ShowID, "show_id", "0")
          /\ SentIffSet(call.req[1], call.params.AutoPublishedAt, "auto_published_at", "")
          /\ FormKeys(call.req[1]) \subseteq
                {"title", "description", "tags", "explicit", "download_enabled", "hidden",
                 "show_id", "auto_published_at"}
    /\ (cli.pc = "ran" /\ cli.cmd = "shows update") =>
          /\ \A n \in {"Title", "Description", "Language", "CategoryID", "Explicit"} :
                LET f == cli.flags[CASE n = "Title" -> "title" [] n = "Description" -> "description"
                                     [] n = "Language" -> "language" [] n = "CategoryID" -> "category"
                                     [] n = "Explicit" -> "explicit"]
                IN  /\ cli.params[n] # <<>> <=> f.changed
                    /\ f.changed => cli.params[n] = <<f.value>>
          /\ cli.req # <<>> =>
                /\ "title" \in FormKeys(cli.req[1]) <=> cli.flags.title.changed
                /\ "description" \in FormKeys(cli.req[1]) <=> cli.flags.description.changed
                /\ "language" \in FormKeys(cli.req[1]) <=> cli.flags.language.changed
                /\ "category_id" \in FormKeys(cli.req[1]) <=> cli.flags.category.changed
                /\ "explicit" \in FormKeys(cli.req[1]) <=> cli.flags.explicit.changed
    /\ (cli.pc = "ran" /\ cli.cmd = "episodes update") =>
          /\ \A n \in {"Title", "Description", "Tags", "Explicit", "DownloadEnabled", "Hidden"} :
                LET f == cli.flags[CASE n = "Title" -> "title" [] n = "Description" -> "description"
                                     [] n = "Tags" -> "tags" [] n = "Explicit" -> "explicit"
                                     [] n = "DownloadEnabled" -> "downloadable"
                                     [] n = "Hidden" -> "hidden"]
                IN  /\ cli.params[n] # <<>> <=> f.changed
                    /\ f.changed => cli.params[n] = <<f.value>>
          /\ cli.params.ShowID = <<>> /\ cli.params.AutoPublishedAt = <<>>
          /\ cli.req # <<>> =>
                /\ "download_enabled" \in FormKeys(cli.req[1]) <=> cli.flags.downloadable.changed
                /\ "show_id" \notin FormKeys(cli.req[1])
                /\ "auto_published_at" \notin FormKeys(cli.req[1])

C23_Witness ==
    /\ call # NoCall /\ call.op = "UpdateShow" /\ call.req # <<>> /\ call.err = Nil
    /\ call.params = [Title |-> <<"">>, Description |-> <<>>, CategoryID |-> <<0>>,
                      Language |-> <<>>, Explicit |-> <<FALSE>>]
    /\ call.req[1].form = {<<"title", "">>, <<"category_id", "0">>, <<"explicit", "false">>}

\* position of a step among the steps of login, 0 when it was not taken
StepAt(step) ==
    IF \E i \in 1..Len(cli.steps) : cli.steps[i] = step
    THEN CHOOSE i \in 1..Len(cli.steps) : cli.steps[i] = step
    ELSE 0

\* C24: runLogin saves the token to the configuration only after GetMe has
\* succeeded with that token: when the token entered is empty or GetMe
\* fails, for whatever reason, SaveToken is never called and the stored
\* configuration is unchanged.
C24_SaveOnlyAfterGetMe ==
    (cli.pc = "ran" /\ cli.cmd = "login") =>
        /\ StepAt("SaveToken") > 0 =>
              /\ StepAt("GetMe") > 0 /\ StepAt("GetMe") < StepAt("SaveToken")
              /\ cli.me = Nil /\ cli.token # ""
              /\ cli.client = <<NewClient(cli.token)>>
        /\ (cli.token = "" \/ cli.me # Nil) =>
              (StepAt("SaveToken") = 0 /\ cli.stored = cli.env /\ cli.err # Nil)
        /\ cli.stored # cli.env =>
              (cli.me = Nil /\ cli.stored.fileToken = cli.token /\ cli.token # "")
        /\ (cli.x # NoExchange /\ (cli.x.outcome # "ok" \/ cli.x.status >= 400
                                    \/ cli.x.body = NotJSON)) =>
              (StepAt("SaveToken") = 0 /\ cli.stored = cli.env)

C24_Witness ==
    /\ cli.pc = "ran" /\ cli.cmd = "login" /\ cli.token = "tt"
    /\ cli.x.outcome = "ok" /\ cli.x.status = 401 /\ cli.me.type = "APIError"
    /\ cli.steps = <<"Scanln", "GetMe">>
    /\ cli.env.fileToken = "filetok" /\ cli.stored = cli.env

\* the download loop of download-all has dealt with an episode
DLDealt == dl.pc \in {"downloading", "finished"} /\ dl.last # NoEpisode

\* C21: in download-all with skip-existing (the default), an episode whose
\* target file already exists in the output directory is counted as
\* skipped, and neither a request for its download URL nor a download is
\* made for it; without skip-existing every collected episode is attempted.
C21_ExistingFileSkipped ==
    DLDealt =>
        /\ (dl.skipExisting /\ dl.last.existed) =>
              /\ dl.last.counter = "skipped"
              /\ dl.last.url = NoURL /\ dl.last.how = "none"
        /\ ~dl.skipExisting =>
              /\ dl.last.url # NoURL /\ dl.last.counter \in {"downloaded", "failed"}
              /\ dl.skipped = 0
        /\ dl.last.counter = "skipped" => (dl.skipExisting /\ dl.last.existed)

C21_Witness ==
    /\ DLDealt /\ dl.skipExisting /\ dl.i = 2
    /\ dl.before = {} /\ dl.downloaded = 1
    /\ dl.last.existed /\ dl.last.counter = "skipped" /\ dl.last.ep.Title = "ep?"
    /\ dl.last.path = "Foo/ep.mp3"

\* the limits download-all asked for in its page requests
AskedLimits == {dl.reqLimits[i] : i \in 1..Len(dl.reqLimits)}

\* C26: in download-all with --limit L > 0, the number of collected
\* episodes never exceeds L after any page, no further page is requested
\* once L episodes are collected, and every page request asks for a limit
\* between 1 and min(100, L); with L = 0 pages of 100 are requested until
\* has_more is false.
C26_LimitBoundsCollecting ==
    /\ [](dl.pc # "idle" =>
            /\ dl.limit > 0 =>
                  /\ Len(dl.allEpisodes) <= dl.limit
                  /\ AskedLimits \subseteq 1..(IF dl.limit < 100 THEN dl.limit ELSE 100)
            /\ dl.limit = 0 =>
                  /\ AskedLimits \subseteq {100}
                  /\ DLLoopOver => ~dl.result.HasMore)
    /\ [][(dl.pc = "loop" /\ dl.limit > 0 /\ dl'.requests > dl.requests) =>
              Len(dl.allEpisodes) < dl.limit]_vars

\* C27: in download-all a continuation request is issued only when the
\* previous page holds at least one item: the loop never reads the last
\* element of an empty page, so a successful page with has_more true and
\* no items does not crash the command.
C27_NoCrashOnEmptyPage ==
    /\ [](dl.pc # "panic")
    /\ [][(dl.pc = "loop" /\ dl'.pc # "panic" /\ dl'.requests > dl.requests) =>
              Len(dl.result.Items) > 0]_vars

\* C28: after downloadFile has returned an error (the request failed, the
\* status was not 200, or the write failed), no file remains at the
\* destination path, so that a later run of download-all with skip-existing
\* tries that episode again instead of taking it for downloaded.
C28_NoFileAfterFailedDownload ==
    (DLDealt /\ dl.last.how \in {"get", "status", "copy"}) =>
        /\ dl.last.counter = "failed"
        /\ dl.last.path \notin dl.files

\* the three counters of download-all
Counters(d) == <<d.downloaded, d.skipped, d.failed>>

\* C29: when download-all finishes its download loop, downloaded + skipped
\* + failed is the number of collected episodes and each collected episode
\* is counted in exactly one of the three counters; a failure on one
\* episode never stops the loop or fails the command.
C29_EveryEpisodeCountedOnce ==
    [][/\ (dl.pc = "downloading" /\ dl'.pc = "downloading") =>
             /\ dl'.i = dl.i + 1
             /\ Counters(dl') \in {<<dl.downloaded + 1, dl.skipped, dl.failed>>,
                                    <<dl.downloaded, dl.skipped + 1, dl.failed>>,
                                    <<dl.downloaded, dl.skipped, dl.failed + 1>>}
             /\ dl'.downloaded + dl'.skipped + dl'.failed = dl'.i
             /\ dl'.err = Nil
       /\ dl.pc = "downloading" => dl'.pc \in {"downloading", "finished"}
       /\ (dl.pc = "downloading" /\ dl.i < Len(dl.allEpisodes)) => dl'.pc = "downloading"
       /\ dl'.pc = "finished" =>
             /\ dl'.downloaded + dl'.skipped + dl'.failed = Len(dl'.allEpisodes)
             /\ dl'.i = Len(dl'.allEpisodes)
             /\ dl'.err = Nil]_vars

C29_Witness ==
    /\ dl.pc = "finished" /\ Len(dl.allEpisodes) = 3
    /\ dl.downloaded = 1 /\ dl.skipped = 1 /\ dl.failed = 1
    /\ dl.last.counter = "failed" /\ dl.err = Nil
====
